---- MODULE Spec2Model ----
(***************************************************************************)
(* Model of the generation pipeline and the refinement engine of the       *)
(* 3D forge: generateBlueprint (Quantize, Architect), generateSoundscape,  *)
(* generatePrototype (Build) and refineGame, with the response sanitizer,  *)
(* the structure validator and the context compressor they call.           *)
(*                                                                         *)
(* A JavaScript string that is data (a response text, a key or a string of *)
(* a parsed response, an artifact) is the sequence of its characters.  A   *)
(* text the code writes itself (a message, the header of a prompt         *)
(* section, a preference) is one atom.  A JavaScript object is the         *)
(* sequence of its entries in property order.                              *)
(***************************************************************************)
EXTENDS Integers, Sequences, FiniteSets, TLC

VARIABLES
    currentProvider, \* client.ts: the provider singleton
    pc,              \* where the caller's pipeline invocation stands
    ai,              \* the provider a running call captured with getAIClient()
    onStatus,        \* the status callback the running call was given
    pending,         \* the provider requests in flight
    requests,        \* every provider request issued so far, in order, with how it ended
    specData,        \* generateBlueprint: the validated Quantize response
    blueprint,       \* the Blueprint generateBlueprint returned
    audio,           \* the value generateSoundscape returned
    heap,            \* the GeneratedGame objects allocated so far; an index is an identity
    refinedFrom,     \* per game object: the object refineGame was given (0: generatePrototype)
    argGame,         \* refineGame: the identity of currentGame
    argSnapshot,     \* refineGame: the content of currentGame when the call started
    settled,         \* the last call that settled: which, how, its error, its result
    calls,           \* the operations the caller has called so far, in order
    prefs,           \* the UserPreferences of this invocation
    input,           \* a helper function called on its own: its arguments
    output,          \* a helper function called on its own: what it returned or threw
    preview          \* the GamePreview component: its props, state, frame and effects

vars == <<currentProvider, pc, ai, onStatus, pending, requests, specData, blueprint,
          audio, heap, refinedFrom, argGame, argSnapshot, settled, calls, prefs,
          input, output, preview>>

(***************************************************************************)
(* Bounds of the model.                                                    *)
(***************************************************************************)
MaxRefines == 2

\* No helper function has been called on its own.
NoCall == [fn |-> "none"]

\* No GamePreview component has been mounted.
NotMounted == [mounted |-> FALSE]

(***************************************************************************)
(* Characters.  A JavaScript string is the sequence of its UTF-16 code     *)
(* units, each a one-character string; a character that cannot be written  *)
(* so is written by a name: the backquote as "BACKQUOTE", a code unit      *)
(* outside printable ASCII as "U+" and its four hexadecimal digits.        *)
(***************************************************************************)
Lower == {"a", "b", "c", "d", "e", "f", "g", "h", "i", "j", "k", "l", "m",
          "n", "o", "p", "q", "r", "s", "t", "u", "v", "w", "x", "y", "z"}
Upper == {"A", "B", "C", "D", "E", "F", "G", "H", "I", "J", "K", "L", "M",
          "N", "O", "P", "Q", "R", "S", "T", "U", "V", "W", "X", "Y", "Z"}
Digits == {"0", "1", "2", "3", "4", "5", "6", "7", "8", "9"}
Base64Chars == Lower \cup Upper \cup Digits \cup {"+", "/", "="}
\* The characters \s matches and String.prototype.trim removes: the ASCII blanks,
\* and the Unicode blanks and line ends.
WsChars ==
    {" ", "\n", "\t", "\r", "\f", "U+000B", "U+00A0", "U+1680",
     "U+2000", "U+2001", "U+2002", "U+2003", "U+2004", "U+2005", "U+2006", "U+2007",
     "U+2008", "U+2009", "U+200A", "U+2028", "U+2029", "U+202F", "U+205F", "U+3000",
     "U+FEFF"}
\* The whitespace JSON.parse skips between tokens.
JsonWs == {" ", "\t", "\n", "\r"}

Quote == "\""
Backslash == "\\"
\* The backquote character (written as an atom).
Backquote == "BACKQUOTE"

HexDigits == <<"0", "1", "2", "3", "4", "5", "6", "7", "8", "9", "A", "B", "C", "D", "E", "F">>
LowerHexDigits ==
    <<"0", "1", "2", "3", "4", "5", "6", "7", "8", "9", "a", "b", "c", "d", "e", "f">>
\* The printable ASCII characters, U+0020 to U+007E.
Ascii ==
    <<" ", "!", "\"", "#", "$", "%", "&", "'", "(", ")", "*", "+", ",", "-", ".", "/",
      "0", "1", "2", "3", "4", "5", "6", "7", "8", "9", ":", ";", "<", "=", ">", "?",
      "@", "A", "B", "C", "D", "E", "F", "G", "H", "I", "J", "K", "L", "M", "N", "O",
      "P", "Q", "R", "S", "T", "U", "V", "W", "X", "Y", "Z", "[", "\\", "]", "^", "_",
      "BACKQUOTE", "a", "b", "c", "d", "e", "f", "g", "h", "i", "j", "k", "l", "m",
      "n", "o", "p", "q", "r", "s", "t", "u", "v", "w", "x", "y", "z", "{", "|", "}",
      "~">>

\* The character of a UTF-16 code unit.
CodeUnit(n) ==
    IF n >= 32 /\ n <= 126 THEN Ascii[n - 31]
    ELSE IF n = 9 THEN "\t"
    ELSE IF n = 10 THEN "\n"
    ELSE IF n = 12 THEN "\f"
    ELSE IF n = 13 THEN "\r"
    ELSE "U+" \o HexDigits[(n \div 4096) + 1] \o HexDigits[((n \div 256) % 16) + 1]
              \o HexDigits[((n \div 16) % 16) + 1] \o HexDigits[(n % 16) + 1]

\* U+0000 to U+001F: JSON.parse rejects them inside a string, JSON.stringify escapes them.
ControlChars == {CodeUnit(n) : n \in 0..31}
HighSurrogates == {CodeUnit(n) : n \in 55296..56319}
LowSurrogates == {CodeUnit(n) : n \in 56320..57343}

\* Four lower-case hexadecimal digits of a code unit, as JSON.stringify writes them.
LowerHex4(n) ==
    <<LowerHexDigits[(n \div 4096) + 1], LowerHexDigits[((n \div 256) % 16) + 1],
      LowerHexDigits[((n \div 16) % 16) + 1], LowerHexDigits[(n % 16) + 1]>>

\* The value of a hexadecimal digit, or of a decimal digit.
HexVal(c) == (CHOOSE i \in 1..16 : HexDigits[i] = c \/ LowerHexDigits[i] = c) - 1
IsHexDigit(c) == \E i \in 1..16 : HexDigits[i] = c \/ LowerHexDigits[i] = c
DigitVal(c) == HexVal(c)
DigitChar(n) == HexDigits[n + 1]

\* The first position from i on whose character is in the set, is not in the set
\* (Len(t) + 1 when there is none).
FirstIn(t, i, set) ==
    IF \E j \in i..Len(t) : t[j] \in set
    THEN CHOOSE j \in i..Len(t) : t[j] \in set /\ \A k \in i..(j - 1) : t[k] \notin set
    ELSE Len(t) + 1
FirstNotIn(t, i, set) ==
    IF \E j \in i..Len(t) : t[j] \notin set
    THEN CHOOSE j \in i..Len(t) : t[j] \notin set /\ \A k \in i..(j - 1) : t[k] \in set
    ELSE Len(t) + 1

\* s has the literal lit at position i
LitAt(s, i, lit) ==
    /\ i >= 1
    /\ i + Len(lit) - 1 <= Len(s)
    /\ SubSeq(s, i, i + Len(lit) - 1) = lit

\* The decimal digits of a natural number.
RECURSIVE DecimalDigits(_)
DecimalDigits(n) ==
    IF n < 10 THEN <<DigitChar(n)>> ELSE Append(DecimalDigits(n \div 10), DigitChar(n % 10))

(***************************************************************************)
(* Property names.  K.title is the name title as a string of characters.   *)
(***************************************************************************)
K ==
       ("title" :> <<"t", "i", "t", "l", "e">>)
    @@ ("summary" :> <<"s", "u", "m", "m", "a", "r", "y">>)
    @@ ("coreMechanics" :> <<"c", "o", "r", "e", "M", "e", "c", "h", "a", "n", "i", "c", "s">>)
    @@ ("visualRequirements" :> <<"v", "i", "s", "u", "a", "l", "R", "e", "q", "u", "i", "r", "e", "m", "e", "n", "t", "s">>)
    @@ ("recommendedEngine" :> <<"r", "e", "c", "o", "m", "m", "e", "n", "d", "e", "d", "E", "n", "g", "i", "n", "e">>)
    @@ ("language" :> <<"l", "a", "n", "g", "u", "a", "g", "e">>)
    @@ ("architecture" :> <<"a", "r", "c", "h", "i", "t", "e", "c", "t", "u", "r", "e">>)
    @@ ("techStack" :> <<"t", "e", "c", "h", "S", "t", "a", "c", "k">>)
    @@ ("prerequisites" :> <<"p", "r", "e", "r", "e", "q", "u", "i", "s", "i", "t", "e", "s">>)
    @@ ("html" :> <<"h", "t", "m", "l">>)
    @@ ("instructions" :> <<"i", "n", "s", "t", "r", "u", "c", "t", "i", "o", "n", "s">>)
    @@ ("description" :> <<"d", "e", "s", "c", "r", "i", "p", "t", "i", "o", "n">>)
    @@ ("backgroundMusic" :> <<"b", "a", "c", "k", "g", "r", "o", "u", "n", "d", "M", "u", "s", "i", "c">>)
    @@ ("soundEffects" :> <<"s", "o", "u", "n", "d", "E", "f", "f", "e", "c", "t", "s">>)
    @@ ("name" :> <<"n", "a", "m", "e">>)
    @@ ("trigger" :> <<"t", "r", "i", "g", "g", "e", "r">>)
    @@ ("code" :> <<"c", "o", "d", "e">>)
    @@ ("editMode" :> <<"e", "d", "i", "t", "M", "o", "d", "e">>)
    @@ ("fullCode" :> <<"f", "u", "l", "l", "C", "o", "d", "e">>)
    @@ ("edits" :> <<"e", "d", "i", "t", "s">>)
    @@ ("search" :> <<"s", "e", "a", "r", "c", "h">>)
    @@ ("replace" :> <<"r", "e", "p", "l", "a", "c", "e">>)
    @@ ("a" :> <<"a">>)
    @@ ("b" :> <<"b">>)
    @@ ("c" :> <<"c">>)
    @@ ("constructor" :> <<"c", "o", "n", "s", "t", "r", "u", "c", "t", "o", "r">>)
    @@ ("toString" :> <<"t", "o", "S", "t", "r", "i", "n", "g">>)
    @@ ("toLocaleString" :> <<"t", "o", "L", "o", "c", "a", "l", "e", "S", "t", "r", "i", "n", "g">>)
    @@ ("valueOf" :> <<"v", "a", "l", "u", "e", "O", "f">>)
    @@ ("hasOwnProperty" :> <<"h", "a", "s", "O", "w", "n", "P", "r", "o", "p", "e", "r", "t", "y">>)
    @@ ("isPrototypeOf" :> <<"i", "s", "P", "r", "o", "t", "o", "t", "y", "p", "e", "O", "f">>)
    @@ ("propertyIsEnumerable" :> <<"p", "r", "o", "p", "e", "r", "t", "y", "I", "s", "E", "n", "u", "m", "e", "r", "a", "b", "l", "e">>)
    @@ ("__proto__" :> <<"_", "_", "p", "r", "o", "t", "o", "_", "_">>)
    @@ ("__defineGetter__" :> <<"_", "_", "d", "e", "f", "i", "n", "e", "G", "e", "t", "t", "e", "r", "_", "_">>)
    @@ ("__defineSetter__" :> <<"_", "_", "d", "e", "f", "i", "n", "e", "S", "e", "t", "t", "e", "r", "_", "_">>)
    @@ ("__lookupGetter__" :> <<"_", "_", "l", "o", "o", "k", "u", "p", "G", "e", "t", "t", "e", "r", "_", "_">>)
    @@ ("__lookupSetter__" :> <<"_", "_", "l", "o", "o", "k", "u", "p", "S", "e", "t", "t", "e", "r", "_", "_">>)
    @@ ("length" :> <<"l", "e", "n", "g", "t", "h">>)
    @@ ("at" :> <<"a", "t">>)
    @@ ("concat" :> <<"c", "o", "n", "c", "a", "t">>)
    @@ ("copyWithin" :> <<"c", "o", "p", "y", "W", "i", "t", "h", "i", "n">>)
    @@ ("entries" :> <<"e", "n", "t", "r", "i", "e", "s">>)
    @@ ("every" :> <<"e", "v", "e", "r", "y">>)
    @@ ("fill" :> <<"f", "i", "l", "l">>)
    @@ ("filter" :> <<"f", "i", "l", "t", "e", "r">>)
    @@ ("find" :> <<"f", "i", "n", "d">>)
    @@ ("findIndex" :> <<"f", "i", "n", "d", "I", "n", "d", "e", "x">>)
    @@ ("findLast" :> <<"f", "i", "n", "d", "L", "a", "s", "t">>)
    @@ ("findLastIndex" :> <<"f", "i", "n", "d", "L", "a", "s", "t", "I", "n", "d", "e", "x">>)
    @@ ("flat" :> <<"f", "l", "a", "t">>)
    @@ ("flatMap" :> <<"f", "l", "a", "t", "M", "a", "p">>)
    @@ ("forEach" :> <<"f", "o", "r", "E", "a", "c", "h">>)
    @@ ("includes" :> <<"i", "n", "c", "l", "u", "d", "e", "s">>)
    @@ ("indexOf" :> <<"i", "n", "d", "e", "x", "O", "f">>)
    @@ ("join" :> <<"j", "o", "i", "n">>)
    @@ ("keys" :> <<"k", "e", "y", "s">>)
    @@ ("lastIndexOf" :> <<"l", "a", "s", "t", "I", "n", "d", "e", "x", "O", "f">>)
    @@ ("map" :> <<"m", "a", "p">>)
    @@ ("pop" :> <<"p", "o", "p">>)
    @@ ("push" :> <<"p", "u", "s", "h">>)
    @@ ("reduce" :> <<"r", "e", "d", "u", "c", "e">>)
    @@ ("reduceRight" :> <<"r", "e", "d", "u", "c", "e", "R", "i", "g", "h", "t">>)
    @@ ("reverse" :> <<"r", "e", "v", "e", "r", "s", "e">>)
    @@ ("shift" :> <<"s", "h", "i", "f", "t">>)
    @@ ("slice" :> <<"s", "l", "i", "c", "e">>)
    @@ ("some" :> <<"s", "o", "m", "e">>)
    @@ ("sort" :> <<"s", "o", "r", "t">>)
    @@ ("splice" :> <<"s", "p", "l", "i", "c", "e">>)
    @@ ("toReversed" :> <<"t", "o", "R", "e", "v", "e", "r", "s", "e", "d">>)
    @@ ("toSorted" :> <<"t", "o", "S", "o", "r", "t", "e", "d">>)
    @@ ("toSpliced" :> <<"t", "o", "S", "p", "l", "i", "c", "e", "d">>)
    @@ ("unshift" :> <<"u", "n", "s", "h", "i", "f", "t">>)
    @@ ("values" :> <<"v", "a", "l", "u", "e", "s">>)
    @@ ("with" :> <<"w", "i", "t", "h">>)
    @@ ("anchor" :> <<"a", "n", "c", "h", "o", "r">>)
    @@ ("big" :> <<"b", "i", "g">>)
    @@ ("blink" :> <<"b", "l", "i", "n", "k">>)
    @@ ("bold" :> <<"b", "o", "l", "d">>)
    @@ ("charAt" :> <<"c", "h", "a", "r", "A", "t">>)
    @@ ("charCodeAt" :> <<"c", "h", "a", "r", "C", "o", "d", "e", "A", "t">>)
    @@ ("codePointAt" :> <<"c", "o", "d", "e", "P", "o", "i", "n", "t", "A", "t">>)
    @@ ("endsWith" :> <<"e", "n", "d", "s", "W", "i", "t", "h">>)
    @@ ("fixed" :> <<"f", "i", "x", "e", "d">>)
    @@ ("fontcolor" :> <<"f", "o", "n", "t", "c", "o", "l", "o", "r">>)
    @@ ("fontsize" :> <<"f", "o", "n", "t", "s", "i", "z", "e">>)
    @@ ("isWellFormed" :> <<"i", "s", "W", "e", "l", "l", "F", "o", "r", "m", "e", "d">>)
    @@ ("italics" :> <<"i", "t", "a", "l", "i", "c", "s">>)
    @@ ("link" :> <<"l", "i", "n", "k">>)
    @@ ("localeCompare" :> <<"l", "o", "c", "a", "l", "e", "C", "o", "m", "p", "a", "r", "e">>)
    @@ ("match" :> <<"m", "a", "t", "c", "h">>)
    @@ ("matchAll" :> <<"m", "a", "t", "c", "h", "A", "l", "l">>)
    @@ ("normalize" :> <<"n", "o", "r", "m", "a", "l", "i", "z", "e">>)
    @@ ("padEnd" :> <<"p", "a", "d", "E", "n", "d">>)
    @@ ("padStart" :> <<"p", "a", "d", "S", "t", "a", "r", "t">>)
    @@ ("repeat" :> <<"r", "e", "p", "e", "a", "t">>)
    @@ ("replaceAll" :> <<"r", "e", "p", "l", "a", "c", "e", "A", "l", "l">>)
    @@ ("small" :> <<"s", "m", "a", "l", "l">>)
    @@ ("split" :> <<"s", "p", "l", "i", "t">>)
    @@ ("startsWith" :> <<"s", "t", "a", "r", "t", "s", "W", "i", "t", "h">>)
    @@ ("strike" :> <<"s", "t", "r", "i", "k", "e">>)
    @@ ("sub" :> <<"s", "u", "b">>)
    @@ ("substr" :> <<"s", "u", "b", "s", "t", "r">>)
    @@ ("substring" :> <<"s", "u", "b", "s", "t", "r", "i", "n", "g">>)
    @@ ("sup" :> <<"s", "u", "p">>)
    @@ ("toLocaleLowerCase" :> <<"t", "o", "L", "o", "c", "a", "l", "e", "L", "o", "w", "e", "r", "C", "a", "s", "e">>)
    @@ ("toLocaleUpperCase" :> <<"t", "o", "L", "o", "c", "a", "l", "e", "U", "p", "p", "e", "r", "C", "a", "s", "e">>)
    @@ ("toLowerCase" :> <<"t", "o", "L", "o", "w", "e", "r", "C", "a", "s", "e">>)
    @@ ("toUpperCase" :> <<"t", "o", "U", "p", "p", "e", "r", "C", "a", "s", "e">>)
    @@ ("toWellFormed" :> <<"t", "o", "W", "e", "l", "l", "F", "o", "r", "m", "e", "d">>)
    @@ ("trim" :> <<"t", "r", "i", "m">>)
    @@ ("trimEnd" :> <<"t", "r", "i", "m", "E", "n", "d">>)
    @@ ("trimLeft" :> <<"t", "r", "i", "m", "L", "e", "f", "t">>)
    @@ ("trimRight" :> <<"t", "r", "i", "m", "R", "i", "g", "h", "t">>)
    @@ ("trimStart" :> <<"t", "r", "i", "m", "S", "t", "a", "r", "t">>)

\* The property names every object inherits from Object.prototype.
ObjectPrototypeKeys ==
    {"constructor", "toString", "toLocaleString", "valueOf", "hasOwnProperty",
     "isPrototypeOf", "propertyIsEnumerable", "__proto__", "__defineGetter__",
     "__defineSetter__", "__lookupGetter__", "__lookupSetter__"}
\* The property names an array has besides: its length and the Array.prototype methods.
ArrayPrototypeKeys ==
    {"length", "at", "concat", "copyWithin", "entries", "every", "fill", "filter",
     "find", "findIndex", "findLast", "findLastIndex", "flat", "flatMap", "forEach",
     "includes", "indexOf", "join", "keys", "lastIndexOf", "map", "pop", "push",
     "reduce", "reduceRight", "reverse", "shift", "slice", "some", "sort", "splice",
     "toReversed", "toSorted", "toSpliced", "unshift", "values", "with"}
\* The property names a string has besides: its length and the String.prototype methods.
StringPrototypeKeys ==
    {"length", "anchor", "at", "big", "blink", "bold", "charAt", "charCodeAt",
     "codePointAt", "concat", "endsWith", "fixed", "fontcolor", "fontsize", "includes",
     "indexOf", "isWellFormed", "italics", "lastIndexOf", "link", "localeCompare",
     "match", "matchAll", "normalize", "padEnd", "padStart", "repeat", "replace",
     "replaceAll", "search", "slice", "small", "split", "startsWith", "strike", "sub",
     "substr", "substring", "sup", "toLocaleLowerCase", "toLocaleUpperCase",
     "toLowerCase", "toUpperCase", "toWellFormed", "trim", "trimEnd", "trimLeft",
     "trimRight", "trimStart"}

(***************************************************************************)
(* Values.  Every JavaScript value has the same record shape: its type,    *)
(* the characters of a string (of a number: of its decimal form, of a      *)
(* function: of its name), the entries of an object in property order,     *)
(* the elements of an array.                                               *)
(***************************************************************************)
StrV(s) == [t |-> "str", s |-> s, m |-> <<>>, a |-> <<>>]
NumV(s) == [t |-> "num", s |-> s, m |-> <<>>, a |-> <<>>]
TrueV == [t |-> "true", s |-> <<>>, m |-> <<>>, a |-> <<>>]
FalseV == [t |-> "false", s |-> <<>>, m |-> <<>>, a |-> <<>>]
NullV == [t |-> "null", s |-> <<>>, m |-> <<>>, a |-> <<>>]
UndefV == [t |-> "undef", s |-> <<>>, m |-> <<>>, a |-> <<>>]
ObjJ(m) == [t |-> "obj", s |-> <<>>, m |-> m, a |-> <<>>]
ArrJ(a) == [t |-> "arr", s |-> <<>>, m |-> <<>>, a |-> a]
\* A built-in method, read from a prototype.
FnV(name) == [t |-> "fn", s |-> name, m |-> <<>>, a |-> <<>>]

Entry(k, v) == [k |-> k, v |-> v]

InfinityChars == <<"I", "n", "f", "i", "n", "i", "t", "y">>

\* An integer index: "0", or digits without a leading zero, below 2^32 - 1.
IsIndexKey(k) ==
    /\ k # <<>>
    /\ \A i \in 1..Len(k) : k[i] \in Digits
    /\ (k[1] = "0" => Len(k) = 1)
    /\ \/ Len(k) < 10
       \/ /\ Len(k) = 10
          /\ LET max == <<"4", "2", "9", "4", "9", "6", "7", "2", "9", "4">>
             IN  \/ k = max
                 \/ \E i \in 1..10 : /\ SubSeq(k, 1, i - 1) = SubSeq(max, 1, i - 1)
                                     /\ DigitVal(k[i]) < DigitVal(max[i])

\* Of two integer indices, the first is the lesser number.
IndexLess(j, k) ==
    \/ Len(j) < Len(k)
    \/ /\ Len(j) = Len(k)
       /\ \E i \in 1..Len(k) : /\ SubSeq(j, 1, i - 1) = SubSeq(k, 1, i - 1)
                               /\ DigitVal(j[i]) < DigitVal(k[i])

\* Definition of one property.  An existing key keeps its place.  A new integer
\* index goes among the integer indices, which come first in ascending order; any
\* other new key goes last.
ObjSet(m, k, v) ==
    IF \E i \in 1..Len(m) : m[i].k = k
    THEN [i \in 1..Len(m) |-> IF m[i].k = k THEN Entry(k, v) ELSE m[i]]
    ELSE IF IsIndexKey(k)
    THEN LET before == SelectSeq(m, LAMBDA e : IsIndexKey(e.k) /\ IndexLess(e.k, k))
         IN  before \o <<Entry(k, v)>> \o SubSeq(m, Len(before) + 1, Len(m))
    ELSE Append(m, Entry(k, v))

RECURSIVE SpreadInto(_, _)
\* { ...a, ...b } on entry lists: b's values replace a's under the same key.
SpreadInto(m, more) ==
    IF more = <<>> THEN m
    ELSE SpreadInto(ObjSet(m, Head(more).k, Head(more).v), Tail(more))

\* The own enumerable properties a spread copies: the entries of an object, the
\* elements of an array and the characters of a string under their indices, none
\* of any other value.
OwnEntries(v) ==
    IF v.t = "obj" THEN v.m
    ELSE IF v.t = "arr" THEN [i \in 1..Len(v.a) |-> Entry(DecimalDigits(i - 1), v.a[i])]
    ELSE IF v.t = "str" THEN [i \in 1..Len(v.s) |-> Entry(DecimalDigits(i - 1), StrV(<<v.s[i]>>))]
    ELSE <<>>

(***************************************************************************)
(* JSON.parse                                                              *)
(***************************************************************************)
ParseFail == [ok |-> FALSE, val |-> NullV, next |-> 0]
Parsed(v, next) == [ok |-> TRUE, val |-> v, next |-> next]

RECURSIVE StripLeadingZeros(_)
StripLeadingZeros(d) ==
    IF d # <<>> /\ Head(d) = "0" THEN StripLeadingZeros(Tail(d)) ELSE d
RECURSIVE StripTrailingZeros(_)
StripTrailingZeros(d) ==
    IF d # <<>> /\ d[Len(d)] = "0" THEN StripTrailingZeros(SubSeq(d, 1, Len(d) - 1)) ELSE d

Zeros(n) == [i \in 1..n |-> "0"]

RECURSIVE DigitsValue(_)
DigitsValue(d) == IF d = <<>> THEN 0 ELSE 10 * DigitsValue(SubSeq(d, 1, Len(d) - 1)) + DigitVal(d[Len(d)])

(***************************************************************************)
(* Natural numbers of any size, for the conversion between decimal         *)
(* literals and doubles: the limbs in base 10^4, the least first, the last *)
(* not 0; <<>> is 0.                                                       *)
(***************************************************************************)
Limb(a, i) == IF i >= 1 /\ i <= Len(a) THEN a[i] ELSE 0

\* The limbs without the zeros at the top.
WithoutTopZeros(a) ==
    IF \A i \in 1..Len(a) : a[i] = 0 THEN <<>>
    ELSE SubSeq(a, 1, CHOOSE i \in 1..Len(a) : a[i] # 0 /\ \A j \in (i + 1)..Len(a) : a[j] = 0)

\* 2a, 10a and a \div 2: a limb of the result depends on one neighbour only.
Twice(a) ==
    WithoutTopZeros(Tail(<<0>> \o [i \in 1..(Len(a) + 1) |->
                              ((2 * Limb(a, i)) % 10000)
                              + (IF Limb(a, i - 1) >= 5000 THEN 1 ELSE 0)]))
TenTimes(a) ==
    WithoutTopZeros(Tail(<<0>> \o [i \in 1..(Len(a) + 1) |->
                              ((10 * Limb(a, i)) % 10000) + (Limb(a, i - 1) \div 1000)]))
Half(a) ==
    WithoutTopZeros(Tail(<<0>> \o [i \in 1..Len(a) |->
                              (a[i] \div 2) + (IF Limb(a, i + 1) % 2 = 1 THEN 5000 ELSE 0)]))

\* a < b
Less(a, b) ==
    \/ Len(a) < Len(b)
    \/ /\ Len(a) = Len(b)
       /\ \E i \in 1..Len(a) : a[i] < b[i] /\ \A j \in (i + 1)..Len(a) : a[j] = b[j]

\* a + b: the carry into limb i comes from the nearest limb below that does not
\* pass a carry on.
Plus(a, b) ==
    LET Carry(i) == \E j \in 1..(i - 1) :
                        /\ Limb(a, j) + Limb(b, j) >= 10000
                        /\ \A k \in (j + 1)..(i - 1) : Limb(a, k) + Limb(b, k) = 9999
    IN  WithoutTopZeros(Tail(<<0>> \o [i \in 1..((IF Len(a) > Len(b) THEN Len(a) ELSE Len(b)) + 1) |->
                                  (Limb(a, i) + Limb(b, i) + (IF Carry(i) THEN 1 ELSE 0))
                                  % 10000]))

\* a - b, for a >= b
Minus(a, b) ==
    LET Borrow(i) == \E j \in 1..(i - 1) :
                        /\ a[j] < Limb(b, j)
                        /\ \A k \in (j + 1)..(i - 1) : a[k] = Limb(b, k)
    IN  WithoutTopZeros(Tail(<<0>> \o [i \in 1..Len(a) |->
                                  (a[i] - Limb(b, i) - (IF Borrow(i) THEN 1 ELSE 0) + 10000)
                                  % 10000]))

RECURSIVE TimesTwoTo(_, _)
\* a * 2^k
TimesTwoTo(a, k) ==
    IF k <= 0 THEN a
    ELSE IF k = 1 THEN Twice(a)
    ELSE CHOOSE r \in {TimesTwoTo(h, k - (k \div 2)) : h \in {TimesTwoTo(a, k \div 2)}} : TRUE

RECURSIVE TimesTenTo(_, _)
\* a * 10^k
TimesTenTo(a, k) ==
    IF k <= 0 \/ a = <<>> THEN a
    ELSE IF k < 4 THEN TimesTenTo(TenTimes(a), k - 1)
    ELSE [i \in 1..(k \div 4) |-> 0] \o TimesTenTo(a, k % 4)

\* The number the decimal digits d denote (d has no zero in front).
NatOfDigits(d) ==
    Tail(<<0>> \o [i \in 1..((Len(d) + 3) \div 4) |->
                      DigitsValue(SubSeq(d, IF Len(d) - (4 * i) + 1 < 1 THEN 1
                                            ELSE Len(d) - (4 * i) + 1,
                                         Len(d) - (4 * (i - 1))))])

IsOdd(a) == Limb(a, 1) % 2 = 1

\* 2^52 and 2^53: the least and the bound of the significand of a normal double
TwoTo52 == TimesTwoTo(<<1>>, 52)
TwoTo53 == TimesTwoTo(<<1>>, 53)

(***************************************************************************)
(* The double nearest a decimal, ties to even.  The decimal is 0.d * 10^n, *)
(* d its digits with no zero at either end.  The double is m * 2^q with m  *)
(* below 2^53, and not below 2^52 unless q is -1074 (a subnormal).         *)
(***************************************************************************)
\* The next bit of the quotient m: p is halved and taken from rem if it is there.
NextBit(s, p, m2) ==
    IF Less(s.rem, p) THEN [rem |-> s.rem, p |-> p, m |-> m2]
    ELSE [rem |-> Minus(s.rem, p), p |-> p,
          m |-> IF m2 = <<>> THEN <<1>> ELSE [m2 EXCEPT ![1] = @ + 1]]

\* One step of the long division of rem by p * 2^(steps left).
DivideStep(s) == CHOOSE r \in {NextBit(s, p, m2) : p \in {Half(s.p)}, m2 \in {Twice(s.m)}} : TRUE

RECURSIVE Divide(_, _)
\* k steps of the long division.
Divide(s, k) ==
    IF k = 1 THEN DivideStep(s)
    ELSE CHOOSE r \in {Divide(h, k - (k \div 2)) : h \in {Divide(s, k \div 2)}} : TRUE

RECURSIVE Normalised(_, _, _)
\* The exponent q raised until num < den * 2^53: [num, den53 (den * 2^53), q]
Normalised(num, den53, q) ==
    IF Less(num, den53) THEN [num |-> num, den53 |-> den53, q |-> q]
    ELSE CHOOSE r \in {Normalised(num, d, q + 1) : d \in {Twice(den53)}} : TRUE

\* The double m * 2^q: a significand of 2^53 is 2^52 with the next exponent, and
\* above the exponent 971 there are no doubles.
DoubleOf(m, q) ==
    IF m = TwoTo53 THEN [zero |-> FALSE, infinite |-> q + 1 > 971, m |-> TwoTo52, q |-> q + 1]
    ELSE [zero |-> m = <<>>, infinite |-> q > 971, m |-> m, q |-> q]

\* The quotient s.m with the rest s.rem of the divisor s.p rounded: up above the
\* half, and at the half to the even one.
RoundedDouble(s, twice, q) ==
    DoubleOf(IF Less(s.p, twice) \/ (twice = s.p /\ IsOdd(s.m)) THEN Plus(s.m, <<1>>) ELSE s.m, q)

\* 53 bits of t.num / (t.den53 / 2^53), rounded
QuotientDouble(t) ==
    CHOOSE r \in {RoundedDouble(s, Twice(s.rem), t.q) :
                    s \in {Divide([rem |-> t.num, p |-> t.den53, m |-> <<>>], 53)}} : TRUE

\* The double nearest 0.d * 10^n, its exponent q0 or up to 6 above.
DoubleFrom(d, n, q0) ==
    QuotientDouble(Normalised(TimesTwoTo(TimesTenTo(NatOfDigits(d), n - Len(d)), 0 - q0),
                              TimesTwoTo(TimesTenTo(<<1>>, Len(d) - n),
                                         IF q0 > 0 THEN q0 + 53 ELSE 53),
                              q0))

\* An exponent of two not above that of the doubles from 10^(n-1) on, and not
\* below by more than 6; -1074 at least.
LeastExponent(n) ==
    IF (((n - 1) * 3321928) \div 1000000) - 53 < -1074 THEN -1074
    ELSE (((n - 1) * 3321928) \div 1000000) - 53

\* [zero, infinite, m, q] of the double nearest 0.d * 10^n
NearestDouble(d, n) ==
    IF d = <<>> \/ n < -323 THEN [zero |-> TRUE, infinite |-> FALSE, m |-> <<>>, q |-> 0]
    ELSE IF n > 309 THEN [zero |-> FALSE, infinite |-> TRUE, m |-> <<>>, q |-> 0]
    ELSE DoubleFrom(d, n, LeastExponent(n))

(***************************************************************************)
(* The digits of Number::toString: the least number of digits that denote  *)
(* a decimal whose nearest double is m * 2^q, and of these the nearest.    *)
(***************************************************************************)
RECURSIVE QuotientDigit(_, _, _, _)
\* [u, rem]: u + floor(r / den) and the rest, for a quotient below 2 * bit; bit
\* is a power of 2, 8 at most.
QuotientDigit(u, r, den, bit) ==
    IF bit = 0 THEN [u |-> u, rem |-> r]
    ELSE CHOOSE t \in {(IF Less(r, d) THEN QuotientDigit(u, r, den, bit \div 2)
                        ELSE QuotientDigit(u + bit, Minus(r, d), den, bit \div 2)) :
                          d \in {TimesTwoTo(den, IF bit = 8 THEN 3 ELSE bit \div 2)}} : TRUE

\* a >= b, or a > b unless the ends count
AtOrAbove(a, b, inclusive) == Less(b, a) \/ (inclusive /\ a = b)

\* The digit u is the next one, or u + 1: with rem the rest, the decimals from
\* (rem - mm) / den to (rem + mp) / den round to the double; sum is rem + mp.
NextDigit(s, u, rem, mp, mm, sum, twice) ==
    [s EXCEPT !.r = rem, !.mp = mp, !.mm = mm,
              !.digits = Append(@, IF (IF AtOrAbove(mm, rem, s.even)
                                          /\ AtOrAbove(sum, s.den, s.even)
                                       THEN Less(s.den, twice)
                                            \/ (twice = s.den /\ u % 2 = 1)
                                       ELSE AtOrAbove(sum, s.den, s.even))
                                   THEN u + 1 ELSE u),
              !.done = AtOrAbove(mm, rem, s.even) \/ AtOrAbove(sum, s.den, s.even)]

\* The digit and the rest x of 10 * s.r
DigitOfQuotient(s, x, mp, mm) ==
    CHOOSE t \in {NextDigit(s, x.u, x.rem, mp, mm, sum, twice) :
                     sum \in {Plus(x.rem, mp)}, twice \in {Twice(x.rem)}} : TRUE

\* One digit more: s = [r, mp, mm, den, even, digits, done]; the double is
\* (digits so far + r / den), the ends of the decimals count when even.
DigitStep(s) ==
    IF s.done THEN s
    ELSE CHOOSE t \in {DigitOfQuotient(s, x, mp, mm) :
                          x \in {QuotientDigit(0, TenTimes(s.r), s.den, 8)},
                          mp \in {TenTimes(s.mp)}, mm \in {TenTimes(s.mm)}} : TRUE

RECURSIVE DigitSteps(_, _)
\* k digits, or fewer when the digits are complete.
DigitSteps(s, k) ==
    IF k = 1 THEN DigitStep(s)
    ELSE CHOOSE r \in {DigitSteps(h, k - (k \div 2)) : h \in {DigitSteps(s, k \div 2)}} : TRUE

\* The double m * 2^q as r / den, the decimals that round to it from (r - mm) / den
\* to (r + mp) / den: below a power of two the doubles are at half the distance.
DoubleAsFraction(m, q) ==
    [r |-> TimesTwoTo(m, (IF q >= 0 THEN q + 1 ELSE 1)
                         + (IF m = TwoTo52 /\ q > -1074 THEN 1 ELSE 0)),
     mp |-> TimesTwoTo(<<1>>, q + (IF m = TwoTo52 /\ q > -1074 THEN 1 ELSE 0)),
     mm |-> TimesTwoTo(<<1>>, q),
     den |-> TimesTwoTo(<<1>>, (IF q >= 0 THEN 1 ELSE 1 - q)
                               + (IF m = TwoTo52 /\ q > -1074 THEN 1 ELSE 0)),
     even |-> ~IsOdd(m), digits |-> <<>>, done |-> FALSE]

\* The fraction divided by 10^n
DividedByTenTo(s, n) ==
    [s EXCEPT !.r = TimesTenTo(@, 0 - n), !.mp = TimesTenTo(@, 0 - n),
              !.mm = TimesTenTo(@, 0 - n), !.den = TimesTenTo(@, n)]

\* The digits of the fraction s, which is 1 / 10 at least: when the upper end of
\* the decimals is 1 or more (more), the digits start one place higher.
DigitsOfFraction(s, n, more) ==
    [digits |-> DigitSteps(IF more THEN [s EXCEPT !.den = TenTimes(@)] ELSE s, 17).digits,
     n |-> IF more THEN n + 1 ELSE n]

\* The digits of the double that is s * 10^n
DigitsOfScaled(s, n) == DigitsOfFraction(s, n, AtOrAbove(Plus(s.r, s.mp), s.den, s.even))

\* [digits, n]: the double m * 2^q is printed as 0.digits * 10^n.  n0 is the
\* decimal exponent of a decimal that rounds to the double.
ShortestDigits(m, q, n0) ==
    CHOOSE t \in {DigitsOfScaled(s, n0) : s \in {DividedByTenTo(DoubleAsFraction(m, q), n0)}} : TRUE

\* Number::toString of the decimal 0.d * 10^n that is the shortest for its double:
\* digits alone, with a point, with zeros after the point, or with an exponent.
Notation(sign, d, n) ==
    IF Len(d) <= n /\ n <= 21 THEN sign \o d \o Zeros(n - Len(d))
    ELSE IF 0 < n /\ n <= 21
    THEN sign \o SubSeq(d, 1, n) \o <<".">> \o SubSeq(d, n + 1, Len(d))
    ELSE IF -6 < n /\ n <= 0 THEN sign \o <<"0", ".">> \o Zeros(0 - n) \o d
    ELSE sign \o <<d[1]>> \o (IF Len(d) > 1 THEN <<".">> \o SubSeq(d, 2, Len(d)) ELSE <<>>)
         \o <<"e">> \o (IF n - 1 < 0 THEN <<"-">> \o DecimalDigits(1 - n)
                        ELSE <<"+">> \o DecimalDigits(n - 1))

\* The digits g of a double, printed.
PrintedDigits(sign, g) ==
    Notation(sign, [i \in 1..Len(g.digits) |-> DigitChar(g.digits[i])], g.n)

\* Number::toString of the double x; n is the decimal exponent of the literal.
PrintedDouble(sign, x, n) ==
    IF x.zero THEN <<"0">>
    ELSE IF x.infinite THEN sign \o InfinityChars
    ELSE PrintedDigits(sign, ShortestDigits(x.m, x.q, n))

\* Number::toString of the double nearest 0.d * 10^n, d without zeros at either
\* end.  A decimal of at most 15 digits in the range of the normal doubles is the
\* shortest that denotes its double.
PrintedDecimal(sign, d, n) ==
    IF Len(d) = 0 THEN <<"0">>
    ELSE IF Len(d) <= 15 /\ -306 <= n /\ n <= 308 THEN Notation(sign, d, n)
    ELSE PrintedDouble(sign, NearestDouble(d, n), n)

\* The limbs of the natural number k
NatOfInt(k) == WithoutTopZeros(<<k % 10000, (k \div 10000) % 10000, k \div 100000000>>)

\* a + b for numbers with a sign: [negative, limbs]
SignedPlus(a, b) ==
    IF a.negative = b.negative THEN [negative |-> a.negative, limbs |-> Plus(a.limbs, b.limbs)]
    ELSE IF Less(a.limbs, b.limbs)
    THEN [negative |-> b.negative, limbs |-> Minus(b.limbs, a.limbs)]
    ELSE [negative |-> a.negative, limbs |-> Minus(a.limbs, b.limbs)]

\* The number a as an integer, and 10000 or -10000 for one that is further from 0:
\* a decimal exponent beyond 309 denotes Infinity and one below -323 denotes 0,
\* whatever it is.
NearZero(a) ==
    IF Len(a.limbs) > 1 THEN (IF a.negative THEN -10000 ELSE 10000)
    ELSE IF a.negative THEN 0 - Limb(a.limbs, 1)
    ELSE Limb(a.limbs, 1)

\* The decimal exponent of a literal: k, the place of the point after the first
\* digit that is not 0, plus the exponent written after the e (a sign, and the
\* digits e of any length).
DecimalExponent(k, expNegative, e) ==
    NearZero(SignedPlus([negative |-> k < 0, limbs |-> NatOfInt(IF k < 0 THEN 0 - k ELSE k)],
                        [negative |-> expNegative, limbs |-> NatOfDigits(e)]))

\* The literal with the digits mant from its first digit that is not 0
ScaledDecimal(sign, mant, fracLen, expNegative, e) ==
    PrintedDecimal(sign, StripTrailingZeros(mant),
                   DecimalExponent(Len(mant) - fracLen, expNegative, e))

\* Number::toString of the number a JSON literal denotes: the literal has the
\* integer digits int, the fraction digits frac and the exponent exp (a sign and
\* digits).  The number is the double nearest the literal, and its text the
\* shortest decimal that denotes this double.
NumberToString(negative, int, frac, expNegative, expDigits) ==
    ScaledDecimal(IF negative THEN <<"-">> ELSE <<>>, StripLeadingZeros(int \o frac), Len(frac),
                  expNegative, StripLeadingZeros(expDigits))

\* The parts of a decimal literal in t whose integer digits end before intEnd: a
\* point and digits, an e or E, a sign and digits.
LiteralParts(t, intEnd) ==
    LET Exponent(hasFrac, fracEnd, hasExp, expStart) ==
            [intEnd |-> intEnd, hasFrac |-> hasFrac, fracEnd |-> fracEnd, hasExp |-> hasExp,
             expNegative |-> hasExp /\ fracEnd + 1 <= Len(t) /\ t[fracEnd + 1] = "-",
             expStart |-> expStart,
             expEnd |-> IF hasExp THEN FirstNotIn(t, expStart, Digits) ELSE fracEnd]
        Fraction(hasFrac, fracEnd) ==
            Exponent(hasFrac, fracEnd,
                     fracEnd <= Len(t) /\ t[fracEnd] \in {"e", "E"},
                     IF /\ fracEnd <= Len(t) /\ t[fracEnd] \in {"e", "E"}
                        /\ fracEnd + 1 <= Len(t) /\ t[fracEnd + 1] \in {"+", "-"}
                     THEN fracEnd + 2 ELSE fracEnd + 1)
    IN  Fraction(intEnd <= Len(t) /\ t[intEnd] = ".",
                 IF intEnd <= Len(t) /\ t[intEnd] = "."
                 THEN FirstNotIn(t, intEnd + 1, Digits) ELSE intEnd)

\* The number the literal with the parts l denotes, its digits from p on.
LiteralNumber(t, negative, p, l) ==
    NumberToString(negative, SubSeq(t, p, l.intEnd - 1),
                   IF l.hasFrac THEN SubSeq(t, l.intEnd + 1, l.fracEnd - 1) ELSE <<>>,
                   l.expNegative,
                   IF l.hasExp THEN SubSeq(t, l.expStart, l.expEnd - 1) ELSE <<>>)

\* A JSON number has integer digits, digits after a point and digits after an e.
JsonNumber(t, negative, p, l) ==
    IF \/ l.intEnd = p
       \/ l.hasFrac /\ l.fracEnd = l.intEnd + 1
       \/ l.hasExp /\ l.expEnd = l.expStart
    THEN ParseFail
    ELSE Parsed(NumV(LiteralNumber(t, negative, p, l)), l.expEnd)

\* The literal from p on: a single 0 or digits that start with another.
JsonNumberFrom(t, negative, p) ==
    JsonNumber(t, negative, p,
               LiteralParts(t, IF p <= Len(t) /\ t[p] = "0" THEN p + 1
                               ELSE FirstNotIn(t, p, Digits)))

\* A JSON number at position i: -?(0|[1-9][0-9]*)(\.[0-9]+)?([eE][+-]?[0-9]+)?
ParseNumber(t, i) ==
    JsonNumberFrom(t, i <= Len(t) /\ t[i] = "-", IF i <= Len(t) /\ t[i] = "-" THEN i + 1 ELSE i)

\* The characters that end a run of plain characters of a JSON string.
StringStops == {Quote, Backslash} \cup ControlChars

RECURSIVE ParseString(_, _, _)
\* A JSON string whose opening quote is before position i, acc the characters read
\* so far: the string and the position after the closing quote.
ParseString(t, i, acc) ==
    LET \* j: the first character from i on that is not copied as it is
        From(j, run) ==
            IF j > Len(t) \/ t[j] \in ControlChars THEN ParseFail
            ELSE IF t[j] = Quote THEN Parsed(StrV(run), j + 1)
            ELSE IF j + 1 > Len(t) THEN ParseFail
            ELSE IF t[j + 1] \in {Quote, Backslash, "/"}
            THEN ParseString(t, j + 2, Append(run, t[j + 1]))
            ELSE IF t[j + 1] \in {"b", "f", "n", "r", "t"}
            THEN ParseString(t, j + 2,
                             Append(run, CASE t[j + 1] = "b" -> CodeUnit(8)
                                           [] t[j + 1] = "f" -> "\f"
                                           [] t[j + 1] = "n" -> "\n"
                                           [] t[j + 1] = "r" -> "\r"
                                           [] t[j + 1] = "t" -> "\t"))
            ELSE IF /\ t[j + 1] = "u"
                    /\ j + 5 <= Len(t)
                    /\ \A k \in (j + 2)..(j + 5) : IsHexDigit(t[k])
            THEN ParseString(t, j + 6,
                             Append(run, CodeUnit(4096 * HexVal(t[j + 2]) + 256 * HexVal(t[j + 3])
                                                  + 16 * HexVal(t[j + 4]) + HexVal(t[j + 5]))))
            ELSE ParseFail
        Run(j) == From(j, acc \o SubSeq(t, i, j - 1))
    IN  Run(FirstIn(t, i, StringStops))

RECURSIVE ParseValue(_, _)
RECURSIVE ParseMembers(_, _, _)
RECURSIVE ParseElements(_, _, _)
\* One JSON value at position i, after any whitespace.
ParseValue(t, start) ==
    LET Composite(j, close, empty) ==
            IF j <= Len(t) /\ t[j] = close THEN Parsed(empty, j + 1)
            ELSE IF close = "}" THEN ParseMembers(t, j, <<>>)
            ELSE ParseElements(t, j, <<>>)
        At(i) ==
            IF i > Len(t) THEN ParseFail
            ELSE IF t[i] = "{" THEN Composite(FirstNotIn(t, i + 1, JsonWs), "}", ObjJ(<<>>))
            ELSE IF t[i] = "[" THEN Composite(FirstNotIn(t, i + 1, JsonWs), "]", ArrJ(<<>>))
            ELSE IF t[i] = Quote THEN ParseString(t, i + 1, <<>>)
            ELSE IF t[i] = "-" \/ t[i] \in Digits THEN ParseNumber(t, i)
            ELSE IF LitAt(t, i, <<"t", "r", "u", "e">>) THEN Parsed(TrueV, i + 4)
            ELSE IF LitAt(t, i, <<"f", "a", "l", "s", "e">>) THEN Parsed(FalseV, i + 5)
            ELSE IF LitAt(t, i, <<"n", "u", "l", "l">>) THEN Parsed(NullV, i + 4)
            ELSE ParseFail
    IN  At(FirstNotIn(t, start, JsonWs))

\* The members of an object from position i on, m the entries defined so far: a
\* repeated key keeps its first place and its last value.
ParseMembers(t, i, m) ==
    LET Member(key, v, e, entries) ==
            IF e > Len(t) THEN ParseFail
            ELSE IF t[e] = "}" THEN Parsed(ObjJ(entries), e + 1)
            ELSE IF t[e] = "," THEN ParseMembers(t, FirstNotIn(t, e + 1, JsonWs), entries)
            ELSE ParseFail
        AfterValue(key, v) ==
            IF ~v.ok THEN ParseFail
            ELSE Member(key, v, FirstNotIn(t, v.next, JsonWs), ObjSet(m, key.val.s, v.val))
        AfterColon(key, c) ==
            IF c > Len(t) \/ t[c] # ":" THEN ParseFail
            ELSE AfterValue(key, ParseValue(t, c + 1))
        AfterKey(key) ==
            IF ~key.ok THEN ParseFail
            ELSE AfterColon(key, FirstNotIn(t, key.next, JsonWs))
    IN  IF i > Len(t) \/ t[i] # Quote THEN ParseFail
        ELSE AfterKey(ParseString(t, i + 1, <<>>))

ParseElements(t, i, acc) ==
    LET Element(v, e) ==
            IF e > Len(t) THEN ParseFail
            ELSE IF t[e] = "]" THEN Parsed(ArrJ(Append(acc, v.val)), e + 1)
            ELSE IF t[e] = "," THEN ParseElements(t, e + 1, Append(acc, v.val))
            ELSE ParseFail
        AfterValue(v) ==
            IF ~v.ok THEN ParseFail ELSE Element(v, FirstNotIn(t, v.next, JsonWs))
    IN  AfterValue(ParseValue(t, i))

\* JSON.parse: the whole text must be exactly one value, whitespace around it.
JSONParse(text) ==
    LET Whole(r) ==
            IF r.ok /\ FirstNotIn(text, r.next, JsonWs) = Len(text) + 1
            THEN [ok |-> TRUE, val |-> r.val]
            ELSE [ok |-> FALSE, val |-> NullV]
    IN  Whole(ParseValue(text, 1))

(***************************************************************************)
(* Property reads and conversions of values                                *)
(***************************************************************************)
NaNChars == <<"N", "a", "N">>
ObjectText ==
    <<"[", "o", "b", "j", "e", "c", "t", " ", "O", "b", "j", "e", "c", "t", "]">>
\* The message of the TypeError of converting an object that has a property
\* toString of its own (a JSON value, no function) to a string or a number.
PrimitiveTypeError == "Cannot convert object to primitive value"

\* The object has the key as a property of its own.
HasOwn(data, key) == \E i \in 1..Len(data.m) : data.m[i].k = key

\* The key is the index of an element of the sequence.
IsIndexOf(key, seq) == IsIndexKey(key) /\ Less(NatOfDigits(key), NatOfInt(Len(seq)))

\* `key in data` for an object or an array: own and inherited properties alike.
Has(data, key) ==
    \/ HasOwn(data, key)
    \/ data.t \in {"obj", "arr"} /\ \E n \in ObjectPrototypeKeys : K[n] = key
    \/ /\ data.t = "arr"
       /\ \/ \E n \in ArrayPrototypeKeys : K[n] = key
          \/ IsIndexOf(key, data.a)

\* `data.key` of a value that is neither null nor undefined: a property of its
\* own, an element or a character, the length, a method of the prototype, or
\* undefined.
Get(data, key) ==
    IF HasOwn(data, key)
    THEN data.m[CHOOSE i \in 1..Len(data.m) : data.m[i].k = key].v
    ELSE IF data.t = "arr" /\ IsIndexOf(key, data.a) THEN data.a[DigitsValue(key) + 1]
    ELSE IF data.t = "str" /\ IsIndexOf(key, data.s) THEN StrV(<<data.s[DigitsValue(key) + 1]>>)
    ELSE IF data.t = "arr" /\ key = K.length THEN NumV(DecimalDigits(Len(data.a)))
    ELSE IF data.t = "str" /\ key = K.length THEN NumV(DecimalDigits(Len(data.s)))
    ELSE IF \/ data.t = "arr" /\ \E n \in ArrayPrototypeKeys : K[n] = key
            \/ data.t = "str" /\ \E n \in StringPrototypeKeys : K[n] = key
            \/ /\ data.t \in {"obj", "arr", "str", "num", "true", "false"}
               /\ \E n \in ObjectPrototypeKeys \ {"__proto__"} : K[n] = key
    THEN FnV(key)
    ELSE UndefV

\* JavaScript truthiness.
Truthy(v) ==
    \/ v.t = "str" /\ v.s # <<>>
    \/ v.t = "num" /\ v.s \notin {<<"0">>, NaNChars}
    \/ v.t \in {"true", "obj", "arr", "fn"}

RECURSIVE JoinTexts(_, _)
\* texts.join(sep)
JoinTexts(texts, sep) ==
    IF texts = <<>> THEN <<>>
    ELSE IF Len(texts) = 1 THEN Head(texts)
    ELSE Head(texts) \o sep \o JoinTexts(Tail(texts), sep)

RECURSIVE ToStringThrows(_)
\* The conversion of the value to a string or a number throws the TypeError: the
\* value is an object with a property toString of its own, or an array that has
\* such an element.
ToStringThrows(v) ==
    \/ v.t = "obj" /\ HasOwn(v, K.toString)
    \/ v.t = "arr" /\ \E i \in 1..Len(v.a) : ToStringThrows(v.a[i])

RECURSIVE TextOf(_)
\* ToString of a value whose conversion does not throw, as a template literal and String.prototype.includes apply it.
TextOf(v) ==
    CASE v.t \in {"str", "num"} -> v.s
      [] v.t = "true" -> <<"t", "r", "u", "e">>
      [] v.t = "false" -> <<"f", "a", "l", "s", "e">>
      [] v.t = "null" -> <<"n", "u", "l", "l">>
      [] v.t = "undef" -> <<"u", "n", "d", "e", "f", "i", "n", "e", "d">>
      [] v.t = "obj" -> ObjectText
      [] v.t = "arr" -> JoinTexts([i \in 1..Len(v.a) |->
                                      IF v.a[i].t \in {"null", "undef"} THEN <<>>
                                      ELSE TextOf(v.a[i])],
                                  <<",">>)
      [] v.t = "fn" -> <<"f", "u", "n", "c", "t", "i", "o", "n", " ">> \o v.s
                       \o <<"(", ")", " ", "{", " ", "[", "n", "a", "t", "i", "v", "e", " ",
                            "c", "o", "d", "e", "]", " ", "}">>

\* text.trim()
Trim(text) ==
    LET From(first) ==
            IF first > Len(text) THEN <<>>
            ELSE SubSeq(text, first,
                        CHOOSE j \in first..Len(text) :
                            text[j] \notin WsChars /\ \A k \in (j + 1)..Len(text) : text[k] \in WsChars)
    IN  From(FirstNotIn(text, 1, WsChars))

\* The digits of a literal in base 16, 8 or 2; none when s does not start as one.
RadixDigits(s) ==
    IF Len(s) < 3 \/ s[1] # "0" THEN {}
    ELSE IF s[2] \in {"x", "X"} THEN {c \in Digits \cup Lower \cup Upper : IsHexDigit(c)}
    ELSE IF s[2] \in {"o", "O"} THEN {"0", "1", "2", "3", "4", "5", "6", "7"}
    ELSE IF s[2] \in {"b", "B"} THEN {"0", "1"}
    ELSE {}

\* u is a decimal literal with the parts l, all of u, and its number is not 0:
\* digits before or after the point, and digits after an e.
DecimalAboveZero(u, l) ==
    /\ u # <<>>
    /\ l.intEnd > 1 \/ (l.hasFrac /\ l.fracEnd > l.intEnd + 1)
    /\ l.hasExp => l.expEnd > l.expStart
    /\ l.expEnd = Len(u) + 1
    /\ LiteralNumber(u, FALSE, 1, l) # <<"0">>

\* s: the text without the blanks around it; u: s without a sign +
UnsignedAboveZero(s, u, radixDigits) ==
    IF s = <<>> \/ s[1] = "-" THEN FALSE
    ELSE IF u = InfinityChars THEN TRUE
    ELSE IF radixDigits # {}
    THEN /\ \A i \in 3..Len(s) : s[i] \in radixDigits
         /\ \E i \in 3..Len(s) : s[i] # "0"
    ELSE DecimalAboveZero(u, LiteralParts(u, FirstNotIn(u, 1, Digits)))

TrimmedAboveZero(s) ==
    UnsignedAboveZero(s, IF s # <<>> /\ s[1] = "+" THEN Tail(s) ELSE s, RadixDigits(s))

\* StringToNumber of the text is a number above 0: a decimal literal, Infinity, or
\* a literal in base 16, 8 or 2, blanks around it.
StringAboveZero(text) == TrimmedAboveZero(Trim(text))

\* `v > 0` for a value whose conversion does not throw.
AboveZero(v) ==
    \/ v.t = "num" /\ v.s \notin {<<"0">>, NaNChars} /\ v.s[1] # "-"
    \/ v.t = "true"
    \/ v.t = "str" /\ StringAboveZero(v.s)
    \/ v.t = "arr" /\ StringAboveZero(TextOf(v))

(***************************************************************************)
(* parseAndSanitize                                                        *)
(***************************************************************************)
\* text.indexOf(c) / text.lastIndexOf(c) of one character; 0 stands for JavaScript's -1
\* (positions count from 1 here).
IndexOf(text, c) ==
    IF \E i \in 1..Len(text) : text[i] = c
    THEN CHOOSE i \in 1..Len(text) : text[i] = c /\ \A j \in 1..(i - 1) : text[j] # c
    ELSE 0

LastIndexOf(text, c) ==
    IF \E i \in 1..Len(text) : text[i] = c
    THEN CHOOSE i \in 1..Len(text) : text[i] = c /\ \A j \in (i + 1)..Len(text) : text[j] # c
    ELSE 0

RECURSIVE RemoveAll(_, _)
\* text.replace(/.../g, '') for a pattern that matches any of the literals, all of
\* one length: every match is removed, leftmost first, the search going on after it.
RemoveAll(text, lits) ==
    LET starts == {i \in 1..Len(text) : \E l \in lits : LitAt(text, i, l)}
    IN  IF starts = {} THEN text
        ELSE LET i == CHOOSE k \in starts : \A j \in starts : k <= j
                 n == Len(CHOOSE l \in lits : LitAt(text, i, l))
             IN  SubSeq(text, 1, i - 1) \o RemoveAll(SubSeq(text, i + n, Len(text)), lits)

FenceLit == <<Backquote, Backquote, Backquote>>
\* /```json/gi: the marker with json in either case of each letter
FenceJsonLits ==
    {FenceLit \o <<j, s, o, n>> : j \in {"j", "J"}, s \in {"s", "S"}, o \in {"o", "O"},
                                  n \in {"n", "N"}}

\* text.replace(/```json/gi, '').replace(/```/g, '')
RemoveFences(text) == RemoveAll(RemoveAll(text, FenceJsonLits), {FenceLit})

InvalidStructureMsg == "The AI generated an invalid response structure. Please try again."

\* The three strategies on their own: [ok, val]
DirectParse(text) == JSONParse(text)
BraceCandidate(text) ==
    LET Span(firstOpen, lastClose) ==
            IF firstOpen # 0 /\ lastClose # 0 /\ lastClose > firstOpen
            THEN JSONParse(SubSeq(text, firstOpen, lastClose))
            ELSE [ok |-> FALSE, val |-> NullV]
    IN  Span(IndexOf(text, "{"), LastIndexOf(text, "}"))
CleanupParse(text) == JSONParse(Trim(RemoveFences(text)))

\* Mutant: the cleanup of the fence markers is tried before the brace candidate.
parseAndSanitizeCleanupFirst(text) ==
    IF DirectParse(text).ok
    THEN [ok |-> TRUE, val |-> DirectParse(text).val, via |-> 1, err |-> <<>>]
    ELSE IF CleanupParse(text).ok
    THEN [ok |-> TRUE, val |-> CleanupParse(text).val, via |-> 3, err |-> <<>>]
    ELSE IF BraceCandidate(text).ok
    THEN [ok |-> TRUE, val |-> BraceCandidate(text).val, via |-> 2, err |-> <<>>]
    ELSE [ok |-> FALSE, val |-> NullV, via |-> 0, err |-> <<InvalidStructureMsg>>]

\* Mutant: the brace candidate is tried before the parse of the whole text.
parseAndSanitizeExtractFirst(text) ==
    IF BraceCandidate(text).ok
    THEN [ok |-> TRUE, val |-> BraceCandidate(text).val, via |-> 2, err |-> <<>>]
    ELSE IF DirectParse(text).ok
    THEN [ok |-> TRUE, val |-> DirectParse(text).val, via |-> 1, err |-> <<>>]
    ELSE IF CleanupParse(text).ok
    THEN [ok |-> TRUE, val |-> CleanupParse(text).val, via |-> 3, err |-> <<>>]
    ELSE [ok |-> FALSE, val |-> NullV, via |-> 0, err |-> <<InvalidStructureMsg>>]

\* Mutant: when every strategy has failed an empty object is returned.
parseAndSanitizeDefaultEmpty(text) ==
    IF DirectParse(text).ok
    THEN [ok |-> TRUE, val |-> DirectParse(text).val, via |-> 1, err |-> <<>>]
    ELSE IF BraceCandidate(text).ok
    THEN [ok |-> TRUE, val |-> BraceCandidate(text).val, via |-> 2, err |-> <<>>]
    ELSE IF CleanupParse(text).ok
    THEN [ok |-> TRUE, val |-> CleanupParse(text).val, via |-> 3, err |-> <<>>]
    ELSE [ok |-> TRUE, val |-> ObjJ(<<>>), via |-> 3, err |-> <<>>]

\* parseAndSanitize: [ok, val, via (the strategy that succeeded), err (the message thrown)]
parseAndSanitize(text) ==
    LET Success(r, via) == [ok |-> TRUE, val |-> r.val, via |-> via, err |-> <<>>]
        Cleanup(final) ==
            IF final.ok THEN Success(final, 3)
            ELSE [ok |-> FALSE, val |-> NullV, via |-> 0, err |-> <<InvalidStructureMsg>>]
        Candidate(candidate) ==
            IF candidate.ok THEN Success(candidate, 2)
            ELSE Cleanup(JSONParse(Trim(RemoveFences(text))))
        Braces(firstOpen, lastClose) ==
            Candidate(IF firstOpen # 0 /\ lastClose # 0 /\ lastClose > firstOpen
                      THEN JSONParse(SubSeq(text, firstOpen, lastClose))
                      ELSE [ok |-> FALSE, val |-> NullV])
        Direct(direct) ==
            IF direct.ok THEN Success(direct, 1)
            ELSE Braces(IndexOf(text, "{"), LastIndexOf(text, "}"))
    IN  Direct(JSONParse(text))

(***************************************************************************)
(* validateStructure                                                       *)
(***************************************************************************)
\* requiredKeys.filter(key => !(key in data))
MissingKeys(data, requiredKeys) == SelectSeq(requiredKeys, LAMBDA k : ~Has(data, k))

\* Mutant: a required key whose value is null counts as missing.
validateStructureRejectsNull(data, requiredKeys, context) ==
    IF data.t \notin {"obj", "arr"}
    THEN [ok |-> FALSE, val |-> NullV,
          err |-> <<context, ": Response was not a valid object.">>]
    ELSE IF Len(SelectSeq(requiredKeys,
                          LAMBDA k : ~Has(data, k) \/ (HasOwn(data, k) /\ Get(data, k) = NullV))) > 0
    THEN [ok |-> FALSE, val |-> NullV,
          err |-> <<context, ": Missing required fields: ">>
                    \o JoinTexts(SelectSeq(requiredKeys,
                                           LAMBDA k : ~Has(data, k)
                                                      \/ (HasOwn(data, k) /\ Get(data, k) = NullV)),
                                 <<",", " ">>)]
    ELSE [ok |-> TRUE, val |-> data, err |-> <<>>]

\* validateStructure: [ok, val (the value returned), err (the message thrown)].  The
\* required keys are strings of characters; the message is the context, the fixed
\* text and the characters of the missing keys, joined by a comma and a blank.
validateStructure(data, requiredKeys, context) ==
    LET Filtered(missing) ==
            IF Len(missing) > 0
            THEN [ok |-> FALSE, val |-> NullV,
                  err |-> <<context, ": Missing required fields: ">>
                            \o JoinTexts(missing, <<",", " ">>)]
            ELSE [ok |-> TRUE, val |-> data, err |-> <<>>]
    IN  IF data.t \notin {"obj", "arr"}
        THEN [ok |-> FALSE, val |-> NullV,
              err |-> <<context, ": Response was not a valid object.">>]
        ELSE Filtered(MissingKeys(data, requiredKeys))

(***************************************************************************)
(* Operations on strings                                                   *)
(***************************************************************************)
RECURSIVE RunEnd(_, _, _)
\* The first position from i on whose character is not of the class (Len(s) + 1 if none).
RunEnd(s, i, class) ==
    IF i <= Len(s) /\ s[i] \in class THEN RunEnd(s, i + 1, class) ELSE i

\* newHtml.includes(searchBlock)
Includes(s, sub) == \E i \in 1..(Len(s) + 1) : LitAt(s, i, sub)

FirstIndexOf(s, sub) ==
    CHOOSE i \in 1..(Len(s) + 1) : LitAt(s, i, sub) /\ \A j \in 1..(i - 1) : ~LitAt(s, j, sub)

RECURSIVE ExpandReplacement(_, _, _, _)
\* String.prototype.replace with a string pattern reads these patterns in the
\* replacement: $$ is one dollar, $& the matched text, $ and a backquote the text
\* before the match, and $' the text after it.
ExpandReplacement(rep, matched, before, after) ==
    IF rep = <<>> THEN <<>>
    ELSE IF Head(rep) = "$" /\ Len(rep) >= 2 /\ rep[2] \in {"$", "&", Backquote, "'"}
    THEN (CASE rep[2] = "$" -> <<"$">>
            [] rep[2] = "&" -> matched
            [] rep[2] = Backquote -> before
            [] rep[2] = "'" -> after)
         \o ExpandReplacement(SubSeq(rep, 3, Len(rep)), matched, before, after)
    ELSE <<Head(rep)>> \o ExpandReplacement(Tail(rep), matched, before, after)

RECURSIVE ReplaceEvery(_, _, _)
\* Mutant: every occurrence of the search text is replaced.
ReplaceEvery(s, sub, rep) ==
    IF sub = <<>> \/ ~Includes(s, sub) THEN s
    ELSE SubSeq(s, 1, FirstIndexOf(s, sub) - 1)
         \o ExpandReplacement(rep, sub, SubSeq(s, 1, FirstIndexOf(s, sub) - 1),
                              SubSeq(s, FirstIndexOf(s, sub) + Len(sub), Len(s)))
         \o ReplaceEvery(SubSeq(s, FirstIndexOf(s, sub) + Len(sub), Len(s)), sub, rep)

\* newHtml.replace(searchBlock, edit.replace): the first occurrence only.
ReplaceFirst(s, sub, rep) ==
    IF ~Includes(s, sub) THEN s
    ELSE LET i == FirstIndexOf(s, sub)
             before == SubSeq(s, 1, i - 1)
             after == SubSeq(s, i + Len(sub), Len(s))
         IN  before \o ExpandReplacement(rep, sub, before, after) \o after

(***************************************************************************)
(* compressCodeForContext                                                  *)
(***************************************************************************)
DataLit == <<"d", "a", "t", "a", ":">>
Base64Lit == <<";", "b", "a", "s", "e", "6", "4", ",">>
Base64Placeholder ==
    <<"<", "B", "A", "S", "E", "6", "4", "_", "D", "A", "T", "A", "_",
      "H", "I", "D", "D", "E", "N", ">">>
GeometryPlaceholder ==
    <<"[", ".", ".", ".", "G", "E", "O", "M", "E", "T", "R", "Y", "_", "D", "A", "T", "A", "_",
      "H", "I", "D", "D", "E", "N", ".", ".", ".", "]">>

\* The quantifier {10,} of the numeric-array pattern.
MinGroups == 10

\* /data:[a-z]+\/[a-z]+;base64,[A-Za-z0-9+/=]+/ matched at i: the position after
\* the match, 0 when there is none.
DataUriEnd(s, i) ==
    IF ~LitAt(s, i, DataLit) THEN 0
    ELSE LET a == i + Len(DataLit)
             b == RunEnd(s, a, Lower)
         IN  IF b = a \/ ~LitAt(s, b, <<"/">>) THEN 0
             ELSE LET c == b + 1
                      d == RunEnd(s, c, Lower)
                  IN  IF d = c \/ ~LitAt(s, d, Base64Lit) THEN 0
                      ELSE LET e == d + Len(Base64Lit)
                               f == RunEnd(s, e, Base64Chars)
                           IN  IF f = e THEN 0 ELSE f

\* /\d*\.?\d+/ matched at i, as far as it goes: the position after it, 0 when none.
NumberEnd(s, i) ==
    LET d1 == RunEnd(s, i, Digits)
        d2 == RunEnd(s, d1 + 1, Digits)
    IN  IF d1 <= Len(s) /\ s[d1] = "." /\ d2 > d1 + 1 THEN d2
        ELSE IF d1 > i THEN d1
        ELSE 0

RECURSIVE ArrayElems(_, _, _)
\* After `[` and n groups `number,`: the position after the closing `]`, 0 when
\* the text from j on does not complete the pattern.
ArrayElems(s, j, n) ==
    LET a == RunEnd(s, j, WsChars)
        b == IF a <= Len(s) /\ s[a] = "-" THEN a + 1 ELSE a
        e == NumberEnd(s, b)
    IN  IF e = 0 THEN 0
        ELSE IF e <= Len(s) /\ s[e] = "," THEN ArrayElems(s, e + 1, n + 1)
        ELSE LET f == RunEnd(s, e, WsChars)
             IN  IF f <= Len(s) /\ s[f] = "]" /\ n >= MinGroups THEN f + 1 ELSE 0

\* /\[(\s*-?\d*\.?\d+,){10,}\s*-?\d*\.?\d+\s*\]/ matched at i
NumericArrayEnd(s, i) ==
    IF i <= Len(s) /\ s[i] = "[" THEN ArrayElems(s, i + 1, 0) ELSE 0

\* The least position of a set of positions.
FirstOf(positions) == CHOOSE k \in positions : \A j \in positions : k <= j

\* The positions from i on where the data URI pattern, the numeric array pattern match.
DataUriStarts(s, i) == {k \in i..Len(s) : DataUriEnd(s, k) # 0}
NumericArrayStarts(s, i) == {k \in i..Len(s) : NumericArrayEnd(s, k) # 0}

\* Mutant: the pattern without its g flag, only the first data URI is replaced.
ReplaceFirstDataUri(s, i) ==
    IF DataUriStarts(s, i) = {} THEN SubSeq(s, i, Len(s))
    ELSE SubSeq(s, i, FirstOf(DataUriStarts(s, i)) - 1)
         \o Base64Placeholder
         \o SubSeq(s, DataUriEnd(s, FirstOf(DataUriStarts(s, i))), Len(s))

RECURSIVE ReplaceDataUris(_, _)
\* replace(/.../g, '<BASE64_DATA_HIDDEN>') from position i on: every match, leftmost
\* first, the search going on after the match.
ReplaceDataUris(s, i) ==
    IF DataUriStarts(s, i) = {} THEN SubSeq(s, i, Len(s))
    ELSE SubSeq(s, i, FirstOf(DataUriStarts(s, i)) - 1)
         \o Base64Placeholder
         \o ReplaceDataUris(s, DataUriEnd(s, FirstOf(DataUriStarts(s, i))))

RECURSIVE ReplaceNumericArrays(_, _)
\* replace(/.../g, '[...GEOMETRY_DATA_HIDDEN...]') from position i on
ReplaceNumericArrays(s, i) ==
    IF NumericArrayStarts(s, i) = {} THEN SubSeq(s, i, Len(s))
    ELSE SubSeq(s, i, FirstOf(NumericArrayStarts(s, i)) - 1)
         \o GeometryPlaceholder
         \o ReplaceNumericArrays(s, NumericArrayEnd(s, FirstOf(NumericArrayStarts(s, i))))

compressCodeForContext(code) ==
    IF code = <<>> THEN <<>>
    ELSE ReplaceNumericArrays(ReplaceDataUris(code, 1), 1)


(***************************************************************************)
(* Manifest Builder                                                        *)
(***************************************************************************)
\* generateShortHash: a deterministic digest that tells distinct inputs apart.
generateShortHash(str) == <<"#">> \o str

(***************************************************************************)
(* JSON.stringify                                                          *)
(***************************************************************************)
\* The code unit of a character written by its code point.
CodeOf(c, range) == CHOOSE n \in range : CodeUnit(n) = c

\* The characters QuoteJSONString does not copy as they are.
EscapedChars == StringStops \cup HighSurrogates \cup LowSurrogates

RECURSIVE QuoteChars(_, _)
\* QuoteJSONString from position i on: the quote and the backslash are escaped, a
\* control character by its short form or as \u00xx, a surrogate that has no
\* partner as \udxxx.
QuoteChars(s, i) ==
    LET j == FirstIn(s, i, EscapedChars)
    IN  IF j > Len(s) THEN SubSeq(s, i, Len(s))
        ELSE SubSeq(s, i, j - 1)
             \o (IF s[j] \in HighSurrogates /\ j < Len(s) /\ s[j + 1] \in LowSurrogates
                 THEN <<s[j], s[j + 1]>> \o QuoteChars(s, j + 2)
                 ELSE (CASE s[j] = Quote -> <<Backslash, Quote>>
                         [] s[j] = Backslash -> <<Backslash, Backslash>>
                         [] s[j] = CodeUnit(8) -> <<Backslash, "b">>
                         [] s[j] = "\t" -> <<Backslash, "t">>
                         [] s[j] = "\n" -> <<Backslash, "n">>
                         [] s[j] = "\f" -> <<Backslash, "f">>
                         [] s[j] = "\r" -> <<Backslash, "r">>
                         [] s[j] \in ControlChars
                            /\ s[j] \notin {CodeUnit(8), "\t", "\n", "\f", "\r"} ->
                                <<Backslash, "u">> \o LowerHex4(CodeOf(s[j], 0..31))
                         [] OTHER ->
                                <<Backslash, "u">> \o LowerHex4(CodeOf(s[j], 55296..57343)))
                      \o QuoteChars(s, j + 1))

QuoteJSONString(s) == <<Quote>> \o QuoteChars(s, 1) \o <<Quote>>

NullChars == <<"n", "u", "l", "l">>

RECURSIVE StringifyValue(_)
RECURSIVE StringifyEntries(_, _)
RECURSIVE StringifyElements(_)
\* SerializeJSONProperty for a value that is neither undefined nor a function.
StringifyValue(v) ==
    CASE v.t = "str" -> QuoteJSONString(v.s)
      [] v.t = "num" -> IF v.s \in {InfinityChars, <<"-">> \o InfinityChars, <<"N", "a", "N">>}
                        THEN NullChars ELSE v.s
      [] v.t = "true" -> <<"t", "r", "u", "e">>
      [] v.t = "false" -> <<"f", "a", "l", "s", "e">>
      [] v.t = "null" -> NullChars
      [] v.t = "obj" -> <<"{">> \o StringifyEntries(v.m, TRUE) \o <<"}">>
      [] v.t = "arr" -> <<"[">> \o StringifyElements(v.a) \o <<"]">>

\* The members of an object: a property whose value is undefined or a function is
\* left out.
StringifyEntries(m, first) ==
    IF m = <<>> THEN <<>>
    ELSE IF Head(m).v.t \in {"undef", "fn"} THEN StringifyEntries(Tail(m), first)
    ELSE (IF first THEN <<>> ELSE <<",">>)
         \o QuoteJSONString(Head(m).k) \o <<":">> \o StringifyValue(Head(m).v)
         \o StringifyEntries(Tail(m), FALSE)

\* The elements of an array: undefined and a function are written as null.
StringifyElements(a) ==
    IF a = <<>> THEN <<>>
    ELSE (IF Head(a).t \in {"undef", "fn"} THEN NullChars ELSE StringifyValue(Head(a)))
         \o (IF Len(a) > 1 THEN <<",">> ELSE <<>>) \o StringifyElements(Tail(a))

\* JSON.stringify of a value that is neither undefined nor a function.
JSONStringify(data) == StringifyValue(data)

(***************************************************************************)
(* Provider Capability.  A provider call resolves with a text or rejects   *)
(* with an error; each request is issued once and settles once.            *)
(***************************************************************************)
Resolve(text) == [kind |-> "resolve", text |-> text, msg |-> <<>>]
Reject(m) == [kind |-> "reject", text |-> <<>>, msg |-> <<m>>]
PendingOut == [kind |-> "pending", text |-> <<>>, msg |-> <<>>]

\* response.text || "{}"
TextOrDefault(text) == IF text = <<>> THEN <<"{", "}">> ELSE text

\* x || "": the value itself when it is truthy, the empty string otherwise
OrEmpty(v) == IF Truthy(v) THEN v ELSE StrV(<<>>)

\* client.ts: the singleton starts as the Gemini provider.
DefaultProvider == "GeminiProvider"
\* geminiService.ts: generateSoundscape and refineGame call this module-level client.
ModuleClient == "GoogleGenAI"
Providers == {DefaultProvider, "CustomProvider"}

getAIClient == currentProvider

(***************************************************************************)
(* Status callback: absent, or present and throwing on some messages.      *)
(***************************************************************************)
QuantizingMsg == "Quantizing Requirements..."
ArchitectingMsg == "Architecting System..."
SoundscapeMsg == "Designing Soundscape..."
BuildMsg == "Synthesizing Shaders & Logic..."

NoCallback == [present |-> FALSE, throwsOn |-> {}]
CallbacksFor(msgs) ==
    {NoCallback, [present |-> TRUE, throwsOn |-> {}]}
        \cup {[present |-> TRUE, throwsOn |-> {m}] : m \in msgs}

\* if (onStatus) onStatus(msg): whether the statement throws
StatusThrows(cb, msg) == cb.present /\ msg \in cb.throwsOn
CallbackError == <<"status callback threw">>

(***************************************************************************)
(* The try blocks of the phases: [ok, val, err, cause]                     *)
(***************************************************************************)
TryOk(val) == [ok |-> TRUE, val |-> val, err |-> <<>>, cause |-> "ok"]
TryFail(err, cause) == [ok |-> FALSE, val |-> NullV, err |-> err, cause |-> cause]

\* await generateContent; parseAndSanitize(response.text || "{}"); validateStructure
AwaitParseValidate(out, requiredKeys, context) ==
    LET AfterValidate(p, v) == IF ~v.ok THEN TryFail(v.err, "invalid") ELSE TryOk(p.val)
        AfterParse(p) ==
            IF ~p.ok THEN TryFail(p.err, "unparseable")
            ELSE AfterValidate(p, validateStructure(p.val, requiredKeys, context))
    IN  IF out.kind = "reject" THEN TryFail(out.msg, "rejected")
        ELSE AfterParse(parseAndSanitize(TextOrDefault(out.text)))

QuantizePrefix == "Failed to quantize requirements: "
ArchitectPrefix == "Failed to generate architecture: "
BuildPrefix == "Prototype Generation Failed: "
RefinePrefix == "Refinement Failed: "

SpecRequired == <<K.title, K.summary, K.coreMechanics>>
ArchRequired == <<K.architecture, K.techStack>>
BuildRequired == <<K.html, K.instructions>>

\* Mutant: the Quantize response is parsed but its required fields are not checked.
QuantizeTryUnvalidated(out) == AwaitParseValidate(out, <<>>, "Blueprint Spec")
QuantizeTry(out) == AwaitParseValidate(out, SpecRequired, "Blueprint Spec")
\* catch (e) { throw new Error("Failed to quantize requirements: " + e.message) }
QuantizeCatch(err) == <<QuantizePrefix>> \o err

\* Mutant: every field architectureSchema requires is checked.
ArchitectTrySchema(out) ==
    AwaitParseValidate(out,
                       <<K.recommendedEngine, K.language, K.architecture, K.techStack,
                         K.prerequisites>>,
                       "Blueprint Architecture")
ArchitectTry(out) == AwaitParseValidate(out, ArchRequired, "Blueprint Architecture")
ArchitectCatch(err) == <<ArchitectPrefix>> \o err

\* Mutant: the spread in the other order, the spec response's values win.
MergeBlueprintSpecLast(spec, arch) ==
    ObjJ(SpreadInto(SpreadInto(<<>>, OwnEntries(arch)), OwnEntries(spec)))

\* return { ...specData, ...archData }: the own properties of the one, then of the
\* other (of an array its elements under their indices).
MergeBlueprint(spec, arch) ==
    ObjJ(SpreadInto(SpreadInto(<<>>, OwnEntries(spec)), OwnEntries(arch)))

(***************************************************************************)
(* generateSoundscape                                                      *)
(***************************************************************************)
AudioFailedText ==
    <<"A", "u", "d", "i", "o", " ", "g", "e", "n", "e", "r", "a", "t", "i", "o", "n",
      " ", "f", "a", "i", "l", "e", "d", ".">>
NoMusicText ==
    <<"/", "/", " ", "N", "o", " ", "m", "u", "s", "i", "c", " ", "g", "e", "n", "e",
      "r", "a", "t", "e", "d">>

FallbackAudio ==
    ObjJ(<<Entry(K.description, StrV(AudioFailedText)),
           Entry(K.backgroundMusic, StrV(NoMusicText)),
           Entry(K.soundEffects, ArrJ(<<>>))>>)

\* Mutant: the parsed bundle is checked for the fields audioSchema requires inside
\* the try block.
SoundscapeResultValidated(out) ==
    IF out.kind = "reject" THEN FallbackAudio
    ELSE LET p == parseAndSanitize(TextOrDefault(out.text))
         IN  IF /\ p.ok
                /\ validateStructure(p.val, <<K.description, K.backgroundMusic, K.soundEffects>>,
                                     "Soundscape").ok
             THEN p.val
             ELSE FallbackAudio

\* Mutant: the catch block returns an empty object.
SoundscapeResultEmpty(out) ==
    IF out.kind = "reject" THEN ObjJ(<<>>)
    ELSE LET p == parseAndSanitize(TextOrDefault(out.text))
         IN  IF p.ok THEN p.val ELSE ObjJ(<<>>)

\* try { await ...; return parseAndSanitize(response.text || "{}") } catch { return fallback }
SoundscapeResult(out) ==
    LET AfterParse(p) == IF p.ok THEN p.val ELSE FallbackAudio
    IN  IF out.kind = "reject" THEN FallbackAudio
        ELSE AfterParse(parseAndSanitize(TextOrDefault(out.text)))

\* The audioPrompt (lines 288-307) prints blueprint.title in a template literal:
\* building it throws when the title cannot be converted to a string.
AudioPromptThrows(bp) == ToStringThrows(Get(bp, K.title))

(***************************************************************************)
(* generatePrototype                                                       *)
(***************************************************************************)
NoCustomAudio == <<"NO CUSTOM AUDIO.">>

\* The TypeError of calling map on a value that has none.
MapTypeError == <<"audio.soundEffects.map is not a function">>
\* The TypeError of reading the trigger of an effect that is null.
NullTriggerTypeError == <<"Cannot read properties of null (reading 'trigger')">>

\* The audio part was built, or building it threw.
AudioText(text) == [threw |-> FALSE, text |-> text, err |-> <<>>]
AudioThrew(err) == [threw |-> TRUE, text |-> <<>>, err |-> err]

\* sfx => `// Trigger: ${sfx.trigger} ${sfx.code}` throws: the effect is null, or
\* its trigger or its code cannot be converted to a string.
SfxThrows(sfx) ==
    \/ sfx.t = "null"
    \/ ToStringThrows(Get(sfx, K.trigger))
    \/ ToStringThrows(Get(sfx, K.code))

RECURSIVE SfxText(_)
\* audio.soundEffects.map(sfx => `// Trigger: ${sfx.trigger} ${sfx.code}`).join: a
\* property an effect has not prints as undefined.
SfxText(l) ==
    LET Printed(sfx, rest) ==
            IF rest.threw THEN rest
            ELSE AudioText(<<"// Trigger: ">> \o TextOf(Get(sfx, K.trigger))
                           \o TextOf(Get(sfx, K.code)) \o rest.text)
        Effect(sfx) ==
            IF sfx.t = "null" THEN AudioThrew(NullTriggerTypeError)
            ELSE IF SfxThrows(sfx) THEN AudioThrew(<<PrimitiveTypeError>>)
            ELSE Printed(sfx, SfxText(Tail(l)))
    IN  IF l = <<>> THEN AudioText(<<>>) ELSE Effect(Head(l))

\* audio.soundEffects.length > 0, for whatever value is there.
LengthAboveZero(v) == AboveZero(Get(v, K.length))

\* GameEngine.ThreeJS
ThreeJS == "Three.js (Standard)"

\* ENGINE_SPECS: the instruction block registered for each engine (its first line
\* stands for the block).
ENGINE_SPECS ==
    [id \in {"Three.js (Standard)", "Three.js (WebGPU Experimental)", "p5.js (Creative Coding)",
             "Babylon.js (Enterprise 3D)", "Kaboom.js (2D/Retro)", "Raw WebGL (No Engine)"} |->
        CASE id = "Three.js (Standard)" -> <<"FRAMEWORK: Three.js (Standard WebGL)">>
          [] id = "Three.js (WebGPU Experimental)" -> <<"FRAMEWORK: Three.js (WebGPU - Experimental)">>
          [] id = "p5.js (Creative Coding)" -> <<"FRAMEWORK: p5.js (Creative Coding)">>
          [] id = "Babylon.js (Enterprise 3D)" -> <<"FRAMEWORK: Babylon.js">>
          [] id = "Kaboom.js (2D/Retro)" -> <<"FRAMEWORK: Kaboom.js">>
          [] id = "Raw WebGL (No Engine)" -> <<"FRAMEWORK: Raw WebGL API (No Engine)">>]

\* What a template literal prints for a property inherited from Object.prototype:
\* the prototype object itself or a native function.
InheritedText(key) ==
    IF key = "__proto__" THEN <<"[object Object]">>
    ELSE IF key = "constructor" THEN <<"function ", "Object", "() { [native code] }">>
    ELSE <<"function ", key, "() { [native code] }">>

\* ENGINE_SPECS[id] in a template literal: an own entry, an inherited property, or
\* undefined (the empty text here).
EngineSpecsAt(id) ==
    IF id \in DOMAIN ENGINE_SPECS THEN ENGINE_SPECS[id]
    ELSE IF id \in ObjectPrototypeKeys THEN InheritedText(id)
    ELSE <<>>

\* ENGINE_SPECS[prefs.gameEngine] || ENGINE_SPECS[GameEngine.ThreeJS]
EngineInstructions(p) ==
    IF EngineSpecsAt(p.gameEngine) # <<>> THEN EngineSpecsAt(p.gameEngine)
    ELSE EngineSpecsAt(ThreeJS)

EngineHeader == "ENGINE SPECIFIC INSTRUCTIONS:"
SeedHeader == "DETERMINISTIC SEED: "
AudioHeader == "AUDIO SYSTEM:"

AudioAssetsHeader == "PROCEDURAL AUDIO ASSETS"

\* Mutant: the audio code is put into the request whenever there is a bundle.
AudioContextStrOfAnyBundle(bundle) ==
    IF Truthy(bundle)
    THEN AudioText(<<AudioAssetsHeader>>
                   \o TextOf(Get(bundle, K.backgroundMusic))
                   \o (IF Get(bundle, K.soundEffects).t = "arr"
                          /\ ~SfxText(Get(bundle, K.soundEffects).a).threw
                       THEN SfxText(Get(bundle, K.soundEffects).a).text
                       ELSE <<>>))
    ELSE AudioText(NoCustomAudio)

\* The audio part of the Build request (lines 25-45): "NO CUSTOM AUDIO." unless the
\* bundle has soundEffects of a length above 0; then the music code and the mapped
\* effects, or a TypeError: of the comparison of a length that cannot be converted,
\* of printing music code that cannot be converted, of calling map on a value that
\* is no array, of an effect that is null or cannot be printed.
AudioContextStr(bundle) ==
    LET Mapped(music, effects) ==
            IF effects.threw THEN effects
            ELSE AudioText(<<AudioAssetsHeader>> \o TextOf(music) \o effects.text)
        Music(v, music) ==
            IF ToStringThrows(music) THEN AudioThrew(<<PrimitiveTypeError>>)
            ELSE IF v.t # "arr" THEN AudioThrew(MapTypeError)
            ELSE Mapped(music, SfxText(v.a))
        Effects(v) ==
            IF ~Truthy(bundle) \/ ~Truthy(v) THEN AudioText(NoCustomAudio)
            ELSE IF ToStringThrows(Get(v, K.length)) THEN AudioThrew(<<PrimitiveTypeError>>)
            ELSE IF ~LengthAboveZero(v) THEN AudioText(NoCustomAudio)
            ELSE Music(v, Get(bundle, K.backgroundMusic))
    IN  Effects(Get(bundle, K.soundEffects))

TitleHeader == "- Title: "
SummaryHeader == "- Summary: "

\* PromptRegistry.BuildPrototype prints blueprint.title in a template literal:
\* it throws when the title cannot be converted to a string.
BuildPrototypeThrows(bp) == ToStringThrows(Get(bp, K.title))

\* PromptRegistry.BuildPrototype: the title of the blueprint, the engine block, the
\* seed and the audio part of the prompt, each under its header.
BuildPrototype(bp, p, audioContextStr) ==
    <<TitleHeader>> \o TextOf(Get(bp, K.title))
    \o <<EngineHeader>> \o EngineInstructions(p)
    \o <<SeedHeader, p.seed>>
    \o <<AudioHeader>> \o audioContextStr

\* Mutant: the Build response is parsed but its required fields are not checked.
BuildTryUnvalidated(out) == AwaitParseValidate(out, <<>>, "Prototype Builder")
BuildTry(out) == AwaitParseValidate(out, BuildRequired, "Prototype Builder")
BuildCatch(err) == <<BuildPrefix>> \o err

EngineVersion == "ENGINE_VERSION"

\* Mutant: the two hashes are stored under each other's name.
BuildManifestSwapped(bp, prototypeData, p, now) ==
    [version |-> EngineVersion,
     timestamp |-> now,
     seed |-> p.seed,
     specHash |-> generateShortHash(TextOf(OrEmpty(Get(prototypeData, K.html)))),
     buildHash |-> generateShortHash(JSONStringify(bp)),
     platform |-> p.platform,
     quality |-> p.quality]

\* The manifest object literal; `now` stands for Date.now().  The digest of an html
\* that is no string is taken of its string form.
BuildManifest(bp, prototypeData, p, now) ==
    [version |-> EngineVersion,
     timestamp |-> now,
     seed |-> p.seed,
     specHash |-> generateShortHash(JSONStringify(bp)),
     buildHash |-> generateShortHash(TextOf(OrEmpty(Get(prototypeData, K.html)))),
     platform |-> p.platform,
     quality |-> p.quality]

\* return { ...blueprint, html, instructions, audio, manifest }
PrototypeGame(bp, prototypeData, bundle, manifest) ==
    [bp |-> SpreadInto(<<>>, OwnEntries(bp)),
     html |-> Get(prototypeData, K.html),
     instructions |-> Get(prototypeData, K.instructions),
     audio |-> bundle,
     manifest |-> manifest]

(***************************************************************************)
(* refineGame                                                              *)
(***************************************************************************)
CompressTypeError == "compressed.replace is not a function"
TypeErrorMsg == "Cannot read properties of null (reading 'editMode')"
NullSearchTypeError == "Cannot read properties of null (reading 'search')"
\* An edit that is a string has the methods of String.prototype for search and
\* replace; the replacement is called as a function, without a receiver.
ReplaceReceiverTypeError == "String.prototype.replace called on null or undefined"

RewriteMode == <<"r", "e", "w", "r", "i", "t", "e">>
PatchMode == <<"p", "a", "t", "c", "h">>

\* compressCodeForContext(currentGame.html || "") (line 486, before the try block):
\* an html that is truthy and no string has no replace method.  [threw, text, err]
ContextCode(html) ==
    IF Truthy(html) /\ html.t # "str"
    THEN [threw |-> TRUE, text |-> <<>>, err |-> <<CompressTypeError>>]
    ELSE [threw |-> FALSE, text |-> compressCodeForContext(OrEmpty(html).s), err |-> <<>>]

\* The artifact after some edits, or the error one of them threw.
EditOk(html) == [threw |-> FALSE, html |-> html, err |-> <<>>]
EditThrew(err) == [threw |-> TRUE, html |-> <<>>, err |-> <<err>>]

\* One pass of the loop body (lines 537-549), the search text looked for in
\* `context`: an edit without a truthy search, or whose search text is not found,
\* is skipped; search and replace are converted to strings.
ApplyEditLocatedIn(context, newHtml, edit) ==
    LET Replaced(search, replacement) ==
            IF replacement.t = "fn" THEN EditThrew(ReplaceReceiverTypeError)
            ELSE IF ToStringThrows(replacement) THEN EditThrew(PrimitiveTypeError)
            ELSE EditOk(ReplaceFirst(newHtml, search, TextOf(replacement)))
        Located(search) ==
            IF ~Includes(context, search) THEN EditOk(newHtml)
            ELSE Replaced(search, Get(edit, K.replace))
        Searched(searchBlock) ==
            IF ~Truthy(searchBlock) THEN EditOk(newHtml)
            ELSE IF ToStringThrows(searchBlock) THEN EditThrew(PrimitiveTypeError)
            ELSE Located(TextOf(searchBlock))
    IN  IF edit.t = "null" THEN EditThrew(NullSearchTypeError)
        ELSE Searched(Get(edit, K.search))

\* Mutant: every edit is looked for in the artifact as it was before the first edit.
ApplyEditsOnOriginal(newHtml, edits) ==
    LET After[i \in 0..Len(edits)] ==
            IF i = 0 THEN EditOk(newHtml)
            ELSE IF After[i - 1].threw THEN After[i - 1]
            ELSE ApplyEditLocatedIn(newHtml, After[i - 1].html, edits[i])
    IN  After[Len(edits)]

RECURSIVE ApplyEdits(_, _)
\* for (const edit of result.edits): an edit whose search text is not found is skipped
ApplyEdits(newHtml, edits) ==
    LET Rest(r) == IF r.threw THEN r ELSE ApplyEdits(r.html, Tail(edits))
    IN  IF edits = <<>> THEN EditOk(newHtml)
        ELSE Rest(ApplyEditLocatedIn(newHtml, newHtml, Head(edits)))

\* Mutant: the instructions of the response are dropped.
NewInstructionsKept(result, currentGame) == currentGame.instructions

\* result.instructions || currentGame.instructions
NewInstructions(result, currentGame) ==
    LET Or(instructions) ==
            IF Truthy(instructions) THEN instructions ELSE currentGame.instructions
    IN  Or(Get(result, K.instructions))

\* What the statements after the parse did: returned a game or threw.
GameOk(game) == [threw |-> FALSE, game |-> game, err |-> <<>>]
GameThrew(game, err) == [threw |-> TRUE, game |-> game, err |-> err]

\* The game of the patch branch (lines 533-557): the edits applied to newHtml when
\* result.edits is an array.
PatchedGame(currentGame, result, newHtml) ==
    LET Patched(r) ==
            IF r.threw THEN GameThrew(currentGame, r.err)
            ELSE GameOk([currentGame EXCEPT !.html = StrV(r.html),
                                            !.instructions = NewInstructions(result, currentGame)])
        Edits(edits) ==
            Patched(IF edits.t = "arr" THEN ApplyEdits(newHtml, edits.a) ELSE EditOk(newHtml))
    IN  Edits(Get(result, K.edits))

\* Mutant: the rewrite does not return, and the edits are applied to the new body.
RefinedGameRewritePatched(currentGame, result) ==
    PatchedGame(currentGame, result,
                IF /\ Get(result, K.editMode) = StrV(RewriteMode)
                   /\ Truthy(Get(result, K.fullCode))
                THEN TextOf(Get(result, K.fullCode))
                ELSE OrEmpty(currentGame.html).s)

\* Mutant: a rewrite always replaces the artifact, by nothing when the response has
\* no replacement body.
RefinedGameRewriteAlways(currentGame, result) ==
    IF Get(result, K.editMode) = StrV(RewriteMode)
    THEN GameOk([currentGame EXCEPT !.html = OrEmpty(Get(result, K.fullCode)),
                                    !.instructions = NewInstructions(result, currentGame)])
    ELSE PatchedGame(currentGame, result, OrEmpty(currentGame.html).s)

\* Mutant: the patch starts from the compressed context instead of the artifact.
RefinedGameFromContext(currentGame, result) ==
    IF Get(result, K.editMode) = StrV(RewriteMode) /\ Truthy(Get(result, K.fullCode))
    THEN GameOk([currentGame EXCEPT !.html = Get(result, K.fullCode),
                                    !.instructions = NewInstructions(result, currentGame)])
    ELSE PatchedGame(currentGame, result, compressCodeForContext(OrEmpty(currentGame.html).s))

\* What refineGame does with a parsed response that is not null (lines 521-557);
\* currentGame.html is a string or falsy here, line 486 has thrown otherwise.
RefinedGame(currentGame, result) ==
    LET Mode(fullCode) ==
            IF Get(result, K.editMode) = StrV(RewriteMode) /\ Truthy(fullCode)
            THEN GameOk([currentGame EXCEPT !.html = fullCode,
                                            !.instructions = NewInstructions(result, currentGame)])
            ELSE PatchedGame(currentGame, result, OrEmpty(currentGame.html).s)
    IN  Mode(Get(result, K.fullCode))

\* The try block of refineGame: [ok, game, err, cause]
RefineTry(currentGame, out) ==
    LET Caught(err, cause) ==
            [ok |-> FALSE, game |-> currentGame, err |-> err, cause |-> cause]
        AfterRefine(g) ==
            IF g.threw THEN Caught(g.err, "typeerror")
            ELSE [ok |-> TRUE, game |-> g.game, err |-> <<>>, cause |-> "ok"]
        AfterParse(p) ==
            IF ~p.ok THEN Caught(p.err, "unparseable")
            ELSE IF p.val.t = "null" THEN Caught(<<TypeErrorMsg>>, "typeerror")
            ELSE AfterRefine(RefinedGame(currentGame, p.val))
    IN  IF out.kind = "reject" THEN Caught(out.msg, "rejected")
        ELSE AfterParse(parseAndSanitize(TextOrDefault(out.text)))

RefineCatch(err) == <<RefinePrefix>> \o err

\* Mutant: the new html and instructions are written into currentGame itself.
AllocateGameInPlace(h, currentId, game) ==
    [heap |-> [h EXCEPT ![currentId] = game], value |-> currentId]

\* The returned object literal is a new object: [heap, value (its identity)]
AllocateGame(h, currentId, game) == [heap |-> Append(h, game), value |-> Len(h) + 1]

(***************************************************************************)
(* Inputs: the preferences, the artifacts and the provider's responses.    *)
(***************************************************************************)
PrefsSet ==
    {[seed |-> "abc123", platform |-> "Web", quality |-> "Sketch",
      gameEngine |-> "Three.js (Standard)"],
     [seed |-> "xyz789", platform |-> "Desktop", quality |-> "Polished",
      gameEngine |-> "Kaboom.js (2D/Retro)"]}

H1 == <<"a", "b", "a", "b">>
H2 == <<"b", "$", "c">>
H3 == <<"n", "e", "w">>
I1 == StrV(<<"W", "A", "S", "D">>)
I2 == StrV(<<"A", "r", "r", "o", "w", "s">>)
Neon == StrV(<<"N", "e", "o", "n">>)
Renamed == StrV(<<"R", "e", "n", "a", "m", "e", "d">>)
MusicCode == StrV(<<"m", "u", "s", "i", "c", "(", ")">>)

\* An edit object of a refinement response.
Edit(search, replace) == ObjJ(<<Entry(K.search, StrV(search)), Entry(K.replace, StrV(replace))>>)

RejectOutcome == Reject("quota exceeded")

\* The response texts.  Above each text: its characters as the provider sends them.
\* {"title":"Neon","summary":"Run","coreMechanics":"jump","visualRequirements":"bloom"}
QuantizeFullText ==
    <<"{", "\"", "t", "i", "t", "l", "e", "\"", ":", "\"", "N", "e", "o", "n", "\"",
      ",", "\"", "s", "u", "m", "m", "a", "r", "y", "\"", ":", "\"", "R", "u", "n",
      "\"", ",", "\"", "c", "o", "r", "e", "M", "e", "c", "h", "a", "n", "i", "c", "s",
      "\"", ":", "\"", "j", "u", "m", "p", "\"", ",", "\"", "v", "i", "s", "u", "a",
      "l", "R", "e", "q", "u", "i", "r", "e", "m", "e", "n", "t", "s", "\"", ":", "\"",
      "b", "l", "o", "o", "m", "\"", "}">>
\* ```json\n{"title":"Neon","summary":"Run","coreMechanics":"jump"}\n```
QuantizeFencedText ==
    <<"BACKQUOTE", "BACKQUOTE", "BACKQUOTE", "j", "s", "o", "n", "\n", "{", "\"", "t",
      "i", "t", "l", "e", "\"", ":", "\"", "N", "e", "o", "n", "\"", ",", "\"", "s",
      "u", "m", "m", "a", "r", "y", "\"", ":", "\"", "R", "u", "n", "\"", ",", "\"",
      "c", "o", "r", "e", "M", "e", "c", "h", "a", "n", "i", "c", "s", "\"", ":", "\"",
      "j", "u", "m", "p", "\"", "}", "\n", "BACKQUOTE", "BACKQUOTE", "BACKQUOTE">>
\* {"title":"Neon","summary":"Run","coreMechanics":"jump"}
QuantizeRequiredText ==
    <<"{", "\"", "t", "i", "t", "l", "e", "\"", ":", "\"", "N", "e", "o", "n", "\"",
      ",", "\"", "s", "u", "m", "m", "a", "r", "y", "\"", ":", "\"", "R", "u", "n",
      "\"", ",", "\"", "c", "o", "r", "e", "M", "e", "c", "h", "a", "n", "i", "c", "s",
      "\"", ":", "\"", "j", "u", "m", "p", "\"", "}">>
\* {"title":"Neon","summary":"Run"}
QuantizeNoMechanicsText ==
    <<"{", "\"", "t", "i", "t", "l", "e", "\"", ":", "\"", "N", "e", "o", "n", "\"",
      ",", "\"", "s", "u", "m", "m", "a", "r", "y", "\"", ":", "\"", "R", "u", "n",
      "\"", "}">>
\* Sorry, no.
ProseText ==
    <<"S", "o", "r", "r", "y", ",", " ", "n", "o", ".">>
\* null
NullText ==
    <<"n", "u", "l", "l">>
\* {"recommendedEngine":"Three.js","language":"JS","architecture":"ECS","techStack":"three","prerequisites":"node"}
ArchitectFullText ==
    <<"{", "\"", "r", "e", "c", "o", "m", "m", "e", "n", "d", "e", "d", "E", "n", "g",
      "i", "n", "e", "\"", ":", "\"", "T", "h", "r", "e", "e", ".", "j", "s", "\"",
      ",", "\"", "l", "a", "n", "g", "u", "a", "g", "e", "\"", ":", "\"", "J", "S",
      "\"", ",", "\"", "a", "r", "c", "h", "i", "t", "e", "c", "t", "u", "r", "e",
      "\"", ":", "\"", "E", "C", "S", "\"", ",", "\"", "t", "e", "c", "h", "S", "t",
      "a", "c", "k", "\"", ":", "\"", "t", "h", "r", "e", "e", "\"", ",", "\"", "p",
      "r", "e", "r", "e", "q", "u", "i", "s", "i", "t", "e", "s", "\"", ":", "\"", "n",
      "o", "d", "e", "\"", "}">>
\* Here: {"architecture":"OOP","techStack":"three","title":"Renamed"}
ArchitectProseText ==
    <<"H", "e", "r", "e", ":", " ", "{", "\"", "a", "r", "c", "h", "i", "t", "e", "c",
      "t", "u", "r", "e", "\"", ":", "\"", "O", "O", "P", "\"", ",", "\"", "t", "e",
      "c", "h", "S", "t", "a", "c", "k", "\"", ":", "\"", "t", "h", "r", "e", "e",
      "\"", ",", "\"", "t", "i", "t", "l", "e", "\"", ":", "\"", "R", "e", "n", "a",
      "m", "e", "d", "\"", "}">>
\* {"architecture":"ECS","techStack":"three"}
ArchitectRequiredText ==
    <<"{", "\"", "a", "r", "c", "h", "i", "t", "e", "c", "t", "u", "r", "e", "\"", ":",
      "\"", "E", "C", "S", "\"", ",", "\"", "t", "e", "c", "h", "S", "t", "a", "c",
      "k", "\"", ":", "\"", "t", "h", "r", "e", "e", "\"", "}">>
\* {"architecture":"ECS"}
ArchitectNoStackText ==
    <<"{", "\"", "a", "r", "c", "h", "i", "t", "e", "c", "t", "u", "r", "e", "\"", ":",
      "\"", "E", "C", "S", "\"", "}">>
\* ``` oops
FenceProseText ==
    <<"BACKQUOTE", "BACKQUOTE", "BACKQUOTE", " ", "o", "o", "p", "s">>
\* {"description":"Chip","backgroundMusic":"music()","soundEffects":[{"name":"jump","trigger":"on jump","code":"sfx()"}]}
SoundscapeFullText ==
    <<"{", "\"", "d", "e", "s", "c", "r", "i", "p", "t", "i", "o", "n", "\"", ":",
      "\"", "C", "h", "i", "p", "\"", ",", "\"", "b", "a", "c", "k", "g", "r", "o",
      "u", "n", "d", "M", "u", "s", "i", "c", "\"", ":", "\"", "m", "u", "s", "i", "c",
      "(", ")", "\"", ",", "\"", "s", "o", "u", "n", "d", "E", "f", "f", "e", "c", "t",
      "s", "\"", ":", "[", "{", "\"", "n", "a", "m", "e", "\"", ":", "\"", "j", "u",
      "m", "p", "\"", ",", "\"", "t", "r", "i", "g", "g", "e", "r", "\"", ":", "\"",
      "o", "n", " ", "j", "u", "m", "p", "\"", ",", "\"", "c", "o", "d", "e", "\"",
      ":", "\"", "s", "f", "x", "(", ")", "\"", "}", "]", "}">>
\* {"backgroundMusic":"music()","soundEffects":"boom"}
SoundscapeStringEffectsText ==
    <<"{", "\"", "b", "a", "c", "k", "g", "r", "o", "u", "n", "d", "M", "u", "s", "i",
      "c", "\"", ":", "\"", "m", "u", "s", "i", "c", "(", ")", "\"", ",", "\"", "s",
      "o", "u", "n", "d", "E", "f", "f", "e", "c", "t", "s", "\"", ":", "\"", "b", "o",
      "o", "m", "\"", "}">>
\* {"html":"abab","instructions":"WASD"}
BuildH1Text ==
    <<"{", "\"", "h", "t", "m", "l", "\"", ":", "\"", "a", "b", "a", "b", "\"", ",",
      "\"", "i", "n", "s", "t", "r", "u", "c", "t", "i", "o", "n", "s", "\"", ":",
      "\"", "W", "A", "S", "D", "\"", "}">>
\* ```json{"html":"b$c","instructions":"WASD"}```
BuildFencedText ==
    <<"BACKQUOTE", "BACKQUOTE", "BACKQUOTE", "j", "s", "o", "n", "{", "\"", "h", "t",
      "m", "l", "\"", ":", "\"", "b", "$", "c", "\"", ",", "\"", "i", "n", "s", "t",
      "r", "u", "c", "t", "i", "o", "n", "s", "\"", ":", "\"", "W", "A", "S", "D",
      "\"", "}", "BACKQUOTE", "BACKQUOTE", "BACKQUOTE">>
\* {"html":"","instructions":"WASD"}
BuildEmptyHtmlText ==
    <<"{", "\"", "h", "t", "m", "l", "\"", ":", "\"", "\"", ",", "\"", "i", "n", "s",
      "t", "r", "u", "c", "t", "i", "o", "n", "s", "\"", ":", "\"", "W", "A", "S", "D",
      "\"", "}">>
\* {"html":"abab"}
BuildNoInstructionsText ==
    <<"{", "\"", "h", "t", "m", "l", "\"", ":", "\"", "a", "b", "a", "b", "\"", "}">>
\* [{"html":"abab","instructions":"WASD"}]
BuildArrayText ==
    <<"[", "{", "\"", "h", "t", "m", "l", "\"", ":", "\"", "a", "b", "a", "b", "\"",
      ",", "\"", "i", "n", "s", "t", "r", "u", "c", "t", "i", "o", "n", "s", "\"", ":",
      "\"", "W", "A", "S", "D", "\"", "}", "]">>
\* {"html":["a"],"instructions":"WASD"}
BuildArrayHtmlText ==
    <<"{", "\"", "h", "t", "m", "l", "\"", ":", "[", "\"", "a", "\"", "]", ",", "\"",
      "i", "n", "s", "t", "r", "u", "c", "t", "i", "o", "n", "s", "\"", ":", "\"", "W",
      "A", "S", "D", "\"", "}">>
\* Oops {
ProseBraceText ==
    <<"O", "o", "p", "s", " ", "{">>
\* {"editMode":"patch","edits":[{"search":"ab","replace":"c"}]}
PatchAbText ==
    <<"{", "\"", "e", "d", "i", "t", "M", "o", "d", "e", "\"", ":", "\"", "p", "a",
      "t", "c", "h", "\"", ",", "\"", "e", "d", "i", "t", "s", "\"", ":", "[", "{",
      "\"", "s", "e", "a", "r", "c", "h", "\"", ":", "\"", "a", "b", "\"", ",", "\"",
      "r", "e", "p", "l", "a", "c", "e", "\"", ":", "\"", "c", "\"", "}", "]", "}">>
\* {"editMode":"patch","edits":[{"search":"zz","replace":"q"},{"search":"b","replace":"$&x"}],"instructions":"Arrows"}
PatchTwoText ==
    <<"{", "\"", "e", "d", "i", "t", "M", "o", "d", "e", "\"", ":", "\"", "p", "a",
      "t", "c", "h", "\"", ",", "\"", "e", "d", "i", "t", "s", "\"", ":", "[", "{",
      "\"", "s", "e", "a", "r", "c", "h", "\"", ":", "\"", "z", "z", "\"", ",", "\"",
      "r", "e", "p", "l", "a", "c", "e", "\"", ":", "\"", "q", "\"", "}", ",", "{",
      "\"", "s", "e", "a", "r", "c", "h", "\"", ":", "\"", "b", "\"", ",", "\"", "r",
      "e", "p", "l", "a", "c", "e", "\"", ":", "\"", "$", "&", "x", "\"", "}", "]",
      ",", "\"", "i", "n", "s", "t", "r", "u", "c", "t", "i", "o", "n", "s", "\"", ":",
      "\"", "A", "r", "r", "o", "w", "s", "\"", "}">>
\* ```json{"editMode":"rewrite","fullCode":"new","instructions":"Arrows"}```
RewriteFencedText ==
    <<"BACKQUOTE", "BACKQUOTE", "BACKQUOTE", "j", "s", "o", "n", "{", "\"", "e", "d",
      "i", "t", "M", "o", "d", "e", "\"", ":", "\"", "r", "e", "w", "r", "i", "t", "e",
      "\"", ",", "\"", "f", "u", "l", "l", "C", "o", "d", "e", "\"", ":", "\"", "n",
      "e", "w", "\"", ",", "\"", "i", "n", "s", "t", "r", "u", "c", "t", "i", "o", "n",
      "s", "\"", ":", "\"", "A", "r", "r", "o", "w", "s", "\"", "}", "BACKQUOTE",
      "BACKQUOTE", "BACKQUOTE">>
\* {"editMode":"rewrite"}
RewriteNoBodyText ==
    <<"{", "\"", "e", "d", "i", "t", "M", "o", "d", "e", "\"", ":", "\"", "r", "e",
      "w", "r", "i", "t", "e", "\"", "}">>
\* {"edits":[{"search":"c","replace":"a"}]}
EditsOnlyText ==
    <<"{", "\"", "e", "d", "i", "t", "s", "\"", ":", "[", "{", "\"", "s", "e", "a",
      "r", "c", "h", "\"", ":", "\"", "c", "\"", ",", "\"", "r", "e", "p", "l", "a",
      "c", "e", "\"", ":", "\"", "a", "\"", "}", "]", "}">>

QuantizeOutcomes ==
    {Resolve(QuantizeFullText), Resolve(QuantizeFencedText), Resolve(QuantizeNoMechanicsText),
     Resolve(ProseText), Resolve(<<>>), Resolve(NullText), RejectOutcome}

ArchitectOutcomes ==
    {Resolve(ArchitectFullText), Resolve(ArchitectProseText), Resolve(ArchitectNoStackText),
     Resolve(FenceProseText), RejectOutcome}

SoundscapeOutcomes ==
    {Resolve(SoundscapeFullText), Resolve(<<>>), Resolve(ProseText), RejectOutcome}

BuildOutcomes ==
    {Resolve(BuildH1Text), Resolve(BuildFencedText), Resolve(BuildEmptyHtmlText),
     Resolve(BuildNoInstructionsText), Resolve(BuildArrayText), Resolve(BuildArrayHtmlText),
     Resolve(ProseBraceText), RejectOutcome}

RefineOutcomes ==
    {Resolve(PatchAbText), Resolve(PatchTwoText), Resolve(RewriteFencedText),
     Resolve(RewriteNoBodyText), Resolve(EditsOnlyText), Resolve(ProseText),
     Resolve(NullText), RejectOutcome}

Instructions == {<<"make it faster">>}

(***************************************************************************)
(* The caller: the orchestrator runs Quantize and Architect (one call),    *)
(* then Soundscape, then Build, then any number of refinements.            *)
(***************************************************************************)
CallerMayCall(op) ==
    CASE op = "generateBlueprint" -> pc = "Idle"
      [] op = "generateSoundscape" -> pc = "BlueprintReady"
      [] op = "generatePrototype" -> pc = "AudioReady"
      [] op = "refineGame" -> pc = "Done"

RefineCalls == Len(SelectSeq(calls, LAMBDA c : c = "refineGame"))

NotSettled ==
    [call |-> "", how |-> "none", err |-> <<>>, cause |-> "", phase |-> "", value |-> 0]
Returned(call, value) ==
    [call |-> call, how |-> "returned", err |-> <<>>, cause |-> "ok", phase |-> "",
     value |-> value]
Thrown(call, phase, cause, err) ==
    [call |-> call, how |-> "thrown", err |-> err, cause |-> cause, phase |-> phase,
     value |-> 0]

Request(phase, provider, payload) ==
    [phase |-> phase, provider |-> provider, payload |-> payload]
\* A log entry: the call, the phase, the provider the request went to, the provider
\* the singleton held when the request was issued, what the request carried and how
\* the request ended.
LogEntry(call, req) ==
    [call |-> call, phase |-> req.phase, provider |-> req.provider,
     current |-> currentProvider, payload |-> req.payload, out |-> PendingOut]
\* The log with the answer to the request in flight filled in.
Answered(out) == [requests EXCEPT ![Len(requests)].out = out]

Init ==
    /\ currentProvider = DefaultProvider
    /\ pc = "Idle"
    /\ ai = DefaultProvider
    /\ onStatus = NoCallback
    /\ pending = <<>>
    /\ requests = <<>>
    /\ specData = UndefV
    /\ blueprint = UndefV
    /\ audio = UndefV
    /\ heap = <<>>
    /\ refinedFrom = <<>>
    /\ argGame = 0
    /\ argSnapshot = <<>>
    /\ settled = NotSettled
    /\ calls = <<>>
    /\ prefs \in PrefsSet
    /\ input = NoCall
    /\ output = NoCall
    /\ preview = NotMounted

\* setAIProvider(provider)
setAIProvider(provider) ==
    /\ currentProvider' = provider
    /\ UNCHANGED <<input, output, preview>>
    /\ UNCHANGED <<pc, ai, onStatus, pending, requests, specData, blueprint, audio, heap,
                   refinedFrom, argGame, argSnapshot, settled, calls, prefs>>

\* generateBlueprint up to its first await (lines 640-647)
CallGenerateBlueprint(cb) ==
    /\ CallerMayCall("generateBlueprint")
    /\ calls' = Append(calls, "generateBlueprint")
    /\ ai' = getAIClient
    /\ onStatus' = cb
    /\ IF StatusThrows(cb, QuantizingMsg)
       THEN /\ pc' = "Failed"
            /\ settled' = Thrown("generateBlueprint", "Quantize", "callback", CallbackError)
            /\ UNCHANGED <<pending, requests>>
       ELSE /\ pc' = "Quantizing"
            /\ pending' = Append(pending, Request("Quantize", ai', <<>>))
            /\ requests' = Append(requests,
                                  LogEntry(Len(calls'), Request("Quantize", ai', <<>>)))
            /\ settled' = NotSettled
    /\ UNCHANGED <<input, output, preview>>
    /\ UNCHANGED <<currentProvider, specData, blueprint, audio, heap, refinedFrom, argGame,
                   argSnapshot, prefs>>

\* Mutant: the Architect request asks getAIClient() again instead of using the
\* provider captured when the call started.
QuantizeSettlesLateBound(out) ==
    /\ pc = "Quantizing"
    /\ pending # <<>>
    /\ Head(pending).phase = "Quantize"
    /\ \E r \in {QuantizeTry(out)} :
           IF ~r.ok
           THEN /\ pc' = "Failed"
                /\ settled' = Thrown("generateBlueprint", "Quantize", r.cause,
                                     QuantizeCatch(r.err))
                /\ pending' = Tail(pending)
                /\ requests' = Answered(out)
                /\ UNCHANGED specData
           ELSE IF StatusThrows(onStatus, ArchitectingMsg)
           THEN /\ pc' = "Failed"
                /\ settled' = Thrown("generateBlueprint", "Architect", "callback",
                                     CallbackError)
                /\ pending' = Tail(pending)
                /\ requests' = Answered(out)
                /\ specData' = r.val
           ELSE /\ pc' = "Architecting"
                /\ specData' = r.val
                /\ pending' = Append(Tail(pending), Request("Architect", getAIClient, <<>>))
                /\ requests' = Append(Answered(out),
                                      LogEntry(Len(calls),
                                               Request("Architect", getAIClient, <<>>)))
                /\ UNCHANGED settled
    /\ UNCHANGED <<input, output, preview>>
    /\ UNCHANGED <<currentProvider, ai, onStatus, blueprint, audio, heap, refinedFrom,
                   argGame, argSnapshot, calls, prefs>>

\* generateBlueprint from the Quantize response to its second await (lines 647-668)
QuantizeSettles(out) ==
    /\ pc = "Quantizing"
    /\ pending # <<>>
    /\ Head(pending).phase = "Quantize"
    /\ \E r \in {QuantizeTry(out)} :
           IF ~r.ok
           THEN /\ pc' = "Failed"
                /\ settled' = Thrown("generateBlueprint", "Quantize", r.cause,
                                     QuantizeCatch(r.err))
                /\ pending' = Tail(pending)
                /\ requests' = Answered(out)
                /\ UNCHANGED specData
           ELSE IF StatusThrows(onStatus, ArchitectingMsg)
           THEN /\ pc' = "Failed"
                /\ settled' = Thrown("generateBlueprint", "Architect", "callback",
                                     CallbackError)
                /\ pending' = Tail(pending)
                /\ requests' = Answered(out)
                /\ specData' = r.val
           ELSE /\ pc' = "Architecting"
                /\ specData' = r.val
                /\ pending' = Append(Tail(pending), Request("Architect", ai, <<>>))
                /\ requests' = Append(Answered(out),
                                      LogEntry(Len(calls), Request("Architect", ai, <<>>)))
                /\ UNCHANGED settled
    /\ UNCHANGED <<input, output, preview>>
    /\ UNCHANGED <<currentProvider, ai, onStatus, blueprint, audio, heap, refinedFrom,
                   argGame, argSnapshot, calls, prefs>>

\* generateBlueprint from the Architect response to its return (lines 668-684)
ArchitectSettles(out) ==
    /\ pc = "Architecting"
    /\ pending # <<>>
    /\ Head(pending).phase = "Architect"
    /\ pending' = Tail(pending)
    /\ requests' = Answered(out)
    /\ onStatus' = NoCallback
    /\ \E r \in {ArchitectTry(out)} :
           IF ~r.ok
           THEN /\ pc' = "Failed"
                /\ settled' = Thrown("generateBlueprint", "Architect", r.cause,
                                     ArchitectCatch(r.err))
                /\ UNCHANGED blueprint
           ELSE /\ pc' = "BlueprintReady"
                /\ blueprint' = MergeBlueprint(specData, r.val)
                /\ settled' = Returned("generateBlueprint", 0)
    /\ UNCHANGED <<input, output, preview>>
    /\ UNCHANGED <<currentProvider, ai, specData, audio, heap, refinedFrom, argGame,
                   argSnapshot, calls, prefs>>

\* generateSoundscape up to its await (lines 285-310)
CallGenerateSoundscape(cb) ==
    /\ CallerMayCall("generateSoundscape")
    /\ calls' = Append(calls, "generateSoundscape")
    /\ IF StatusThrows(cb, SoundscapeMsg)
       THEN /\ pc' = "Failed"
            /\ settled' = Thrown("generateSoundscape", "Soundscape", "callback", CallbackError)
            /\ UNCHANGED <<pending, requests>>
       ELSE IF AudioPromptThrows(blueprint)
       THEN /\ pc' = "Failed"
            /\ settled' = Thrown("generateSoundscape", "Soundscape", "type error",
                                 <<PrimitiveTypeError>>)
            /\ UNCHANGED <<pending, requests>>
       ELSE /\ pc' = "Sounding"
            /\ pending' = Append(pending, Request("Soundscape", ModuleClient, <<>>))
            /\ requests' = Append(requests,
                                  LogEntry(Len(calls'), Request("Soundscape", ModuleClient, <<>>)))
            /\ settled' = NotSettled
    /\ UNCHANGED <<input, output, preview>>
    /\ UNCHANGED <<currentProvider, ai, onStatus, specData, blueprint, audio, heap,
                   refinedFrom, argGame, argSnapshot, prefs>>


\* Mutant: after every answer the Soundscape request is issued again, the call never
\* returns.
SoundscapeSettlesAgain(out) ==
    /\ pc = "Sounding"
    /\ pending # <<>>
    /\ Head(pending).phase = "Soundscape"
    /\ requests' = Answered(out)
    /\ audio' = SoundscapeResult(out)
    /\ UNCHANGED <<input, output, preview>>
    /\ UNCHANGED <<currentProvider, pc, ai, onStatus, pending, specData, blueprint, heap,
                   refinedFrom, argGame, argSnapshot, settled, calls, prefs>>

\* generateSoundscape from the response to its return (lines 310-329)
SoundscapeSettles(out) ==
    /\ pc = "Sounding"
    /\ pending # <<>>
    /\ Head(pending).phase = "Soundscape"
    /\ pending' = Tail(pending)
    /\ requests' = Answered(out)
    /\ audio' = SoundscapeResult(out)
    /\ pc' = "AudioReady"
    /\ settled' = Returned("generateSoundscape", 0)
    /\ UNCHANGED <<input, output, preview>>
    /\ UNCHANGED <<currentProvider, ai, onStatus, specData, blueprint, heap, refinedFrom,
                   argGame, argSnapshot, calls, prefs>>

\* generatePrototype up to its await (lines 21-64)
CallGeneratePrototype(cb) ==
    /\ CallerMayCall("generatePrototype")
    /\ calls' = Append(calls, "generatePrototype")
    /\ \E audioContextStr \in {AudioContextStr(audio)} :
           IF StatusThrows(cb, BuildMsg)
           THEN /\ pc' = "Failed"
                /\ settled' = Thrown("generatePrototype", "Build", "callback", CallbackError)
                /\ UNCHANGED <<pending, requests, ai>>
           ELSE IF audioContextStr.threw
           THEN /\ pc' = "Failed"
                /\ settled' = Thrown("generatePrototype", "Build", "type error",
                                     audioContextStr.err)
                /\ ai' = getAIClient
                /\ UNCHANGED <<pending, requests>>
           ELSE IF BuildPrototypeThrows(blueprint)
           THEN /\ pc' = "Failed"
                /\ settled' = Thrown("generatePrototype", "Build", "type error",
                                     BuildCatch(<<PrimitiveTypeError>>))
                /\ ai' = getAIClient
                /\ UNCHANGED <<pending, requests>>
           ELSE /\ pc' = "Building"
                /\ ai' = getAIClient
                /\ pending' = Append(pending,
                                     Request("Build", ai',
                                             BuildPrototype(blueprint, prefs,
                                                            audioContextStr.text)))
                /\ requests' = Append(requests,
                                      LogEntry(Len(calls'),
                                               Request("Build", ai',
                                                       BuildPrototype(blueprint, prefs,
                                                                      audioContextStr.text))))
                /\ settled' = NotSettled
    /\ UNCHANGED <<input, output, preview>>
    /\ UNCHANGED <<currentProvider, onStatus, specData, blueprint, audio, heap, refinedFrom,
                   argGame, argSnapshot, prefs>>

\* generatePrototype from the response to its return (lines 64-100)
BuildSettles(out) ==
    /\ pc = "Building"
    /\ pending # <<>>
    /\ Head(pending).phase = "Build"
    /\ pending' = Tail(pending)
    /\ requests' = Answered(out)
    /\ \E r \in {BuildTry(out)} :
           IF ~r.ok
           THEN /\ pc' = "Failed"
                /\ settled' = Thrown("generatePrototype", "Build", r.cause, BuildCatch(r.err))
                /\ UNCHANGED <<heap, refinedFrom>>
           ELSE /\ pc' = "Done"
                /\ heap' = Append(heap,
                                  PrototypeGame(blueprint, r.val, audio,
                                                BuildManifest(blueprint, r.val, prefs,
                                                              Len(requests))))
                /\ refinedFrom' = Append(refinedFrom, 0)
                /\ settled' = Returned("generatePrototype", Len(heap'))
    /\ UNCHANGED <<input, output, preview>>
    /\ UNCHANGED <<currentProvider, ai, onStatus, specData, blueprint, audio, argGame,
                   argSnapshot, calls, prefs>>

\* refineGame up to its await (lines 484-508): the context is compressed before the
\* try block, so what that throws leaves the call as it is and no request is issued.
CallRefineGame(currentGame, instruction) ==
    /\ CallerMayCall("refineGame")
    /\ RefineCalls < MaxRefines
    /\ currentGame \in 1..Len(heap)
    /\ calls' = Append(calls, "refineGame")
    /\ argGame' = currentGame
    /\ argSnapshot' = <<heap[currentGame]>>
    /\ \E contextCode \in {ContextCode(heap[currentGame].html)} :
           IF contextCode.threw
           THEN /\ pc' = "Done"
                /\ settled' = Thrown("refineGame", "Refine", "type error", contextCode.err)
                /\ UNCHANGED <<pending, requests>>
           ELSE /\ pc' = "Refining"
                /\ pending' = Append(pending,
                                     Request("Refine", ModuleClient, contextCode.text))
                /\ requests' = Append(requests,
                                      LogEntry(Len(calls'),
                                               Request("Refine", ModuleClient,
                                                       contextCode.text)))
                /\ settled' = NotSettled
    /\ UNCHANGED <<input, output, preview>>
    /\ UNCHANGED <<currentProvider, ai, onStatus, specData, blueprint, audio, heap,
                   refinedFrom, prefs>>

\* refineGame from the response to its return (lines 508-560)
RefineSettles(out) ==
    /\ pc = "Refining"
    /\ pending # <<>>
    /\ Head(pending).phase = "Refine"
    /\ pending' = Tail(pending)
    /\ requests' = Answered(out)
    /\ pc' = "Done"
    /\ \E r \in {RefineTry(heap[argGame], out)} :
           IF ~r.ok
           THEN /\ settled' = Thrown("refineGame", "Refine", r.cause, RefineCatch(r.err))
                /\ UNCHANGED <<heap, refinedFrom>>
           ELSE /\ heap' = AllocateGame(heap, argGame, r.game).heap
                /\ refinedFrom' = [i \in 1..Len(heap') |->
                                     IF i <= Len(refinedFrom) THEN refinedFrom[i] ELSE argGame]
                /\ settled' = Returned("refineGame", AllocateGame(heap, argGame, r.game).value)
    /\ UNCHANGED <<input, output, preview>>
    /\ UNCHANGED <<currentProvider, ai, onStatus, specData, blueprint, audio, argGame,
                   argSnapshot, calls, prefs>>

Next ==
    \/ \E cb \in CallbacksFor({QuantizingMsg, ArchitectingMsg}) : CallGenerateBlueprint(cb)
    \/ \E out \in QuantizeOutcomes : QuantizeSettles(out)
    \/ \E out \in ArchitectOutcomes : ArchitectSettles(out)
    \/ \E cb \in CallbacksFor({SoundscapeMsg}) : CallGenerateSoundscape(cb)
    \/ \E out \in SoundscapeOutcomes : SoundscapeSettles(out)
    \/ \E cb \in CallbacksFor({BuildMsg}) : CallGeneratePrototype(cb)
    \/ \E out \in BuildOutcomes : BuildSettles(out)
    \/ \E g \in 1..Len(heap), instruction \in Instructions : CallRefineGame(g, instruction)
    \/ \E out \in RefineOutcomes : RefineSettles(out)

Spec == Init /\ [][Next]_vars

(***************************************************************************)
(* The refinement engine on its own: refineGame is given a GeneratedGame   *)
(* the caller holds (any artifact a Build response can carry) and the      *)
(* provider answers with any of the refinement plans below.                *)
(***************************************************************************)
DataUri ==
    <<"d", "a", "t", "a", ":", "a", "/", "b", ";", "b", "a", "s", "e", "6", "4", ",", "A", "A">>
NumericArray ==
    <<"[", "1", ",", "1", ",", "1", ",", "1", ",", "1", ",", "1", ",", "1", ",", "1", ",",
      "1", ",", "1", ",", "1", "]">>
\* An artifact with a run of two blanks, a marker and an embedded data URI.
H4 == <<"a", " ", " ", "b", "x">> \o DataUri
\* An artifact with a marker and a long numeric array.
H5 == <<"x">> \o NumericArray

RefineHtmls == {H1, H2, H4, H5}

RefinePrefs == CHOOSE p \in PrefsSet : p.platform = "Web"

RefineBlueprint ==
    ObjJ(<<Entry(K.title, Neon), Entry(K.architecture, StrV(<<"E", "C", "S">>))>>)

\* A game as generatePrototype returns it for a Build response with the html h.
GameOf(h) ==
    PrototypeGame(RefineBlueprint,
                  ObjJ(<<Entry(K.html, h), Entry(K.instructions, I1)>>),
                  FallbackAudio,
                  BuildManifest(RefineBlueprint,
                                ObjJ(<<Entry(K.html, h), Entry(K.instructions, I1)>>),
                                RefinePrefs, 0))

\* The game generatePrototype returns for a Build response whose html is null (the
\* key is present, so the response is valid): a game without an artifact.
GameWithoutArtifact == GameOf(NullV)

RefineGames == {GameOf(StrV(h)) : h \in RefineHtmls} \cup {GameWithoutArtifact}

\* {"editMode":"patch","edits":[{"search":"b","replace":"c"}]}
PatchBText ==
    <<"{", "\"", "e", "d", "i", "t", "M", "o", "d", "e", "\"", ":", "\"", "p", "a",
      "t", "c", "h", "\"", ",", "\"", "e", "d", "i", "t", "s", "\"", ":", "[", "{",
      "\"", "s", "e", "a", "r", "c", "h", "\"", ":", "\"", "b", "\"", ",", "\"", "r",
      "e", "p", "l", "a", "c", "e", "\"", ":", "\"", "c", "\"", "}", "]", "}">>
\* {"editMode":"patch","edits":[{"search":"b","replace":"$&x"}]}
PatchPatternText ==
    <<"{", "\"", "e", "d", "i", "t", "M", "o", "d", "e", "\"", ":", "\"", "p", "a",
      "t", "c", "h", "\"", ",", "\"", "e", "d", "i", "t", "s", "\"", ":", "[", "{",
      "\"", "s", "e", "a", "r", "c", "h", "\"", ":", "\"", "b", "\"", ",", "\"", "r",
      "e", "p", "l", "a", "c", "e", "\"", ":", "\"", "$", "&", "x", "\"", "}", "]", "}">>
\* {"editMode":"patch","edits":[{"search":"a b","replace":"q"},{"search":"ab","replace":"c"}],"instructions":"Arrows"}
PatchChainText ==
    <<"{", "\"", "e", "d", "i", "t", "M", "o", "d", "e", "\"", ":", "\"", "p", "a",
      "t", "c", "h", "\"", ",", "\"", "e", "d", "i", "t", "s", "\"", ":", "[", "{",
      "\"", "s", "e", "a", "r", "c", "h", "\"", ":", "\"", "a", " ", "b", "\"", ",",
      "\"", "r", "e", "p", "l", "a", "c", "e", "\"", ":", "\"", "q", "\"", "}", ",",
      "{", "\"", "s", "e", "a", "r", "c", "h", "\"", ":", "\"", "a", "b", "\"", ",",
      "\"", "r", "e", "p", "l", "a", "c", "e", "\"", ":", "\"", "c", "\"", "}", "]",
      ",", "\"", "i", "n", "s", "t", "r", "u", "c", "t", "i", "o", "n", "s", "\"", ":",
      "\"", "A", "r", "r", "o", "w", "s", "\"", "}">>
\* {"editMode":"patch","edits":[{"search":"x","replace":"yz"},{"search":"yz","replace":"w"},{"search":"<BASE64_DATA_HIDDEN>","replace":"q"},{"search":"[...GEOMETRY_DATA_HIDDEN...]","replace":"q"}]}
PatchPlaceholdersText ==
    <<"{", "\"", "e", "d", "i", "t", "M", "o", "d", "e", "\"", ":", "\"", "p", "a",
      "t", "c", "h", "\"", ",", "\"", "e", "d", "i", "t", "s", "\"", ":", "[", "{",
      "\"", "s", "e", "a", "r", "c", "h", "\"", ":", "\"", "x", "\"", ",", "\"", "r",
      "e", "p", "l", "a", "c", "e", "\"", ":", "\"", "y", "z", "\"", "}", ",", "{",
      "\"", "s", "e", "a", "r", "c", "h", "\"", ":", "\"", "y", "z", "\"", ",", "\"",
      "r", "e", "p", "l", "a", "c", "e", "\"", ":", "\"", "w", "\"", "}", ",", "{",
      "\"", "s", "e", "a", "r", "c", "h", "\"", ":", "\"", "<", "B", "A", "S", "E",
      "6", "4", "_", "D", "A", "T", "A", "_", "H", "I", "D", "D", "E", "N", ">", "\"",
      ",", "\"", "r", "e", "p", "l", "a", "c", "e", "\"", ":", "\"", "q", "\"", "}",
      ",", "{", "\"", "s", "e", "a", "r", "c", "h", "\"", ":", "\"", "[", ".", ".",
      ".", "G", "E", "O", "M", "E", "T", "R", "Y", "_", "D", "A", "T", "A", "_", "H",
      "I", "D", "D", "E", "N", ".", ".", ".", "]", "\"", ",", "\"", "r", "e", "p", "l",
      "a", "c", "e", "\"", ":", "\"", "q", "\"", "}", "]", "}">>
\* {"editMode":"patch","edits":[{"search":"","replace":"p"}]}
PatchEmptySearchText ==
    <<"{", "\"", "e", "d", "i", "t", "M", "o", "d", "e", "\"", ":", "\"", "p", "a",
      "t", "c", "h", "\"", ",", "\"", "e", "d", "i", "t", "s", "\"", ":", "[", "{",
      "\"", "s", "e", "a", "r", "c", "h", "\"", ":", "\"", "\"", ",", "\"", "r", "e",
      "p", "l", "a", "c", "e", "\"", ":", "\"", "p", "\"", "}", "]", "}">>
\* {"editMode":"patch","edits":[null]}
PatchNullEditText ==
    <<"{", "\"", "e", "d", "i", "t", "M", "o", "d", "e", "\"", ":", "\"", "p", "a",
      "t", "c", "h", "\"", ",", "\"", "e", "d", "i", "t", "s", "\"", ":", "[", "n",
      "u", "l", "l", "]", "}">>
\* ```json{"editMode":"rewrite","fullCode":"new","edits":[{"search":"n","replace":"m"}],"instructions":"Arrows"}```
RewriteWithEditsText ==
    <<"BACKQUOTE", "BACKQUOTE", "BACKQUOTE", "j", "s", "o", "n", "{", "\"", "e", "d",
      "i", "t", "M", "o", "d", "e", "\"", ":", "\"", "r", "e", "w", "r", "i", "t", "e",
      "\"", ",", "\"", "f", "u", "l", "l", "C", "o", "d", "e", "\"", ":", "\"", "n",
      "e", "w", "\"", ",", "\"", "e", "d", "i", "t", "s", "\"", ":", "[", "{", "\"",
      "s", "e", "a", "r", "c", "h", "\"", ":", "\"", "n", "\"", ",", "\"", "r", "e",
      "p", "l", "a", "c", "e", "\"", ":", "\"", "m", "\"", "}", "]", ",", "\"", "i",
      "n", "s", "t", "r", "u", "c", "t", "i", "o", "n", "s", "\"", ":", "\"", "A", "r",
      "r", "o", "w", "s", "\"", "}", "BACKQUOTE", "BACKQUOTE", "BACKQUOTE">>
\* {"editMode":"rewrite","edits":[{"search":"b","replace":"c"}]}
RewriteEditsOnlyText ==
    <<"{", "\"", "e", "d", "i", "t", "M", "o", "d", "e", "\"", ":", "\"", "r", "e",
      "w", "r", "i", "t", "e", "\"", ",", "\"", "e", "d", "i", "t", "s", "\"", ":",
      "[", "{", "\"", "s", "e", "a", "r", "c", "h", "\"", ":", "\"", "b", "\"", ",",
      "\"", "r", "e", "p", "l", "a", "c", "e", "\"", ":", "\"", "c", "\"", "}", "]", "}">>
\* {"editMode":"rewrite","fullCode":"","instructions":""}
RewriteEmptyText ==
    <<"{", "\"", "e", "d", "i", "t", "M", "o", "d", "e", "\"", ":", "\"", "r", "e",
      "w", "r", "i", "t", "e", "\"", ",", "\"", "f", "u", "l", "l", "C", "o", "d", "e",
      "\"", ":", "\"", "\"", ",", "\"", "i", "n", "s", "t", "r", "u", "c", "t", "i",
      "o", "n", "s", "\"", ":", "\"", "\"", "}">>
\* {"editMode":"rewrite","fullCode":[{"search":"a","replace":"b"}]}
RewriteArrayText ==
    <<"{", "\"", "e", "d", "i", "t", "M", "o", "d", "e", "\"", ":", "\"", "r", "e",
      "w", "r", "i", "t", "e", "\"", ",", "\"", "f", "u", "l", "l", "C", "o", "d", "e",
      "\"", ":", "[", "{", "\"", "s", "e", "a", "r", "c", "h", "\"", ":", "\"", "a",
      "\"", ",", "\"", "r", "e", "p", "l", "a", "c", "e", "\"", ":", "\"", "b", "\"",
      "}", "]", "}">>
\* {"edits":[{"search":"b","replace":"c"}]}
EditsBText ==
    <<"{", "\"", "e", "d", "i", "t", "s", "\"", ":", "[", "{", "\"", "s", "e", "a",
      "r", "c", "h", "\"", ":", "\"", "b", "\"", ",", "\"", "r", "e", "p", "l", "a",
      "c", "e", "\"", ":", "\"", "c", "\"", "}", "]", "}">>
PatchOutcomes ==
    {Resolve(PatchBText), Resolve(PatchPatternText), Resolve(PatchChainText),
     Resolve(PatchPlaceholdersText), Resolve(PatchEmptySearchText), Resolve(PatchNullEditText),
     Resolve(RewriteWithEditsText), Resolve(RewriteEditsOnlyText), Resolve(RewriteEmptyText),
     Resolve(RewriteArrayText), Resolve(EditsBText), RejectOutcome}

InitRefine ==
    /\ currentProvider = DefaultProvider
    /\ pc = "Done"
    /\ ai = DefaultProvider
    /\ onStatus = NoCallback
    /\ pending = <<>>
    /\ requests = <<>>
    /\ specData = UndefV
    /\ blueprint = RefineBlueprint
    /\ audio = FallbackAudio
    /\ \E game \in RefineGames : heap = <<game>>
    /\ refinedFrom = <<0>>
    /\ argGame = 0
    /\ argSnapshot = <<>>
    /\ settled = NotSettled
    /\ calls = <<>>
    /\ prefs = RefinePrefs
    /\ input = NoCall
    /\ output = NoCall
    /\ preview = NotMounted

NextRefine ==
    \/ \E g \in 1..Len(heap), instruction \in Instructions : CallRefineGame(g, instruction)
    \/ \E out \in PatchOutcomes : RefineSettles(out)

SpecRefine == InitRefine /\ [][NextRefine]_vars

(***************************************************************************)
(* The pipeline with the provider replaced at any moment, also while a     *)
(* call is waiting for its response.                                       *)
(***************************************************************************)
SwapQuantizeOutcomes == {Resolve(QuantizeRequiredText), RejectOutcome}
SwapArchitectOutcomes == {Resolve(ArchitectRequiredText), RejectOutcome}
SwapSoundscapeOutcomes == {Resolve(ProseText)}
SwapBuildOutcomes == {Resolve(BuildH1Text), RejectOutcome}
SwapRefineOutcomes == {Resolve(PatchBText)}

NextSwap ==
    \/ \E provider \in Providers : setAIProvider(provider)
    \/ CallGenerateBlueprint(NoCallback)
    \/ \E out \in SwapQuantizeOutcomes : QuantizeSettles(out)
    \/ \E out \in SwapArchitectOutcomes : ArchitectSettles(out)
    \/ CallGenerateSoundscape(NoCallback)
    \/ \E out \in SwapSoundscapeOutcomes : SoundscapeSettles(out)
    \/ CallGeneratePrototype(NoCallback)
    \/ \E out \in SwapBuildOutcomes : BuildSettles(out)
    \/ \E g \in 1..Len(heap), instruction \in Instructions : CallRefineGame(g, instruction)
    \/ \E out \in SwapRefineOutcomes : RefineSettles(out)

SpecSwap == Init /\ [][NextSwap]_vars

(***************************************************************************)
(* The pipeline when every provider call eventually resolves or rejects:   *)
(* a request in flight is answered, so the continuation of the await that  *)
(* waits for it eventually runs.  Nothing is assumed of the caller.  The   *)
(* Build and Refine phases are answered by a usable response, an unusable  *)
(* one or a rejection.                                                     *)
(***************************************************************************)
LiveQuantizeOutcomes == QuantizeOutcomes
LiveArchitectOutcomes == ArchitectOutcomes
LiveSoundscapeOutcomes == SoundscapeOutcomes
LiveBuildOutcomes == SwapBuildOutcomes \cup {Resolve(ProseBraceText)}
LiveRefineOutcomes == SwapRefineOutcomes \cup {Resolve(ProseText), RejectOutcome}

NextLive ==
    \/ \E cb \in CallbacksFor({QuantizingMsg, ArchitectingMsg}) : CallGenerateBlueprint(cb)
    \/ \E out \in LiveQuantizeOutcomes : QuantizeSettles(out)
    \/ \E out \in LiveArchitectOutcomes : ArchitectSettles(out)
    \/ \E cb \in CallbacksFor({SoundscapeMsg}) : CallGenerateSoundscape(cb)
    \/ \E out \in LiveSoundscapeOutcomes : SoundscapeSettles(out)
    \/ \E cb \in CallbacksFor({BuildMsg}) : CallGeneratePrototype(cb)
    \/ \E out \in LiveBuildOutcomes : BuildSettles(out)
    \/ \E g \in 1..Len(heap), instruction \in Instructions : CallRefineGame(g, instruction)
    \/ \E out \in LiveRefineOutcomes : RefineSettles(out)

ProviderAnswers ==
    /\ WF_vars(\E out \in LiveQuantizeOutcomes : QuantizeSettles(out))
    /\ WF_vars(\E out \in LiveArchitectOutcomes : ArchitectSettles(out))
    /\ WF_vars(\E out \in LiveSoundscapeOutcomes : SoundscapeSettles(out))
    /\ WF_vars(\E out \in LiveBuildOutcomes : BuildSettles(out))
    /\ WF_vars(\E out \in LiveRefineOutcomes : RefineSettles(out))

SpecLive == Init /\ [][NextLive]_vars /\ ProviderAnswers

(***************************************************************************)
(* The Build phase on its own: generatePrototype is given a Blueprint, an  *)
(* AudioBundle of an earlier Soundscape phase and preferences naming any   *)
(* engine, registered or not.                                              *)
(***************************************************************************)
EngineIds ==
    DOMAIN ENGINE_SPECS \cup {"Godot", "", "constructor", "toString", "__proto__"}

BuildPrefsSet ==
    {[seed |-> "abc123", platform |-> "Web", quality |-> "Sketch", gameEngine |-> e] :
        e \in EngineIds}

\* A bundle with music code and an empty list of sound effects.
MusicOnlyBundle ==
    ObjJ(<<Entry(K.description, StrV(<<"D", "r", "o", "n", "e">>)),
           Entry(K.backgroundMusic, MusicCode),
           Entry(K.soundEffects, ArrJ(<<>>))>>)

\* A bundle whose soundEffects is a string: generateSoundscape returns what it parsed.
StringEffectsBundle == SoundscapeResult(Resolve(SoundscapeStringEffectsText))

\* A bundle whose soundEffects are objects without trigger and code.
OtherShapeBundle ==
    ObjJ(<<Entry(K.backgroundMusic, MusicCode),
           Entry(K.soundEffects, ArrJ(<<Edit(<<"a">>, <<"b">>)>>))>>)

\* A bundle whose list of sound effects holds null.
NullEffectBundle ==
    ObjJ(<<Entry(K.backgroundMusic, MusicCode), Entry(K.soundEffects, ArrJ(<<NullV>>))>>)

\* Bundles whose soundEffects is an object with a length that is a string: "2e-324"
\* is below half the least double and converts to 0, "3e-324" to the least double.
UnderflowLengthBundle ==
    ObjJ(<<Entry(K.backgroundMusic, MusicCode),
           Entry(K.soundEffects, ObjJ(<<Entry(K.length, StrV(<<"2", "e", "-", "3", "2", "4">>))>>))>>)
LeastLengthBundle ==
    ObjJ(<<Entry(K.backgroundMusic, MusicCode),
           Entry(K.soundEffects, ObjJ(<<Entry(K.length, StrV(<<"3", "e", "-", "3", "2", "4">>))>>))>>)

\* The audio argument: what generateSoundscape returned, a bundle without sound
\* effects, bundles of other shapes, or no bundle.
BuildAudios ==
    {SoundscapeResult(out) : out \in SoundscapeOutcomes}
        \cup {MusicOnlyBundle, StringEffectsBundle, OtherShapeBundle, NullEffectBundle,
              UnderflowLengthBundle, LeastLengthBundle, UndefV}

\* A blueprint whose title is an object with a toString property of its own, as a
\* Quantize response with "title":{"toString":1} yields: validateStructure tests
\* that the required fields are present, not what they hold.
UnprintableBlueprint ==
    ObjJ(<<Entry(K.title, ObjJ(<<Entry(K.toString, NumV(<<"1">>))>>)),
           Entry(K.architecture, StrV(<<"E", "C", "S">>))>>)

BuildBlueprints == {RefineBlueprint, UnprintableBlueprint}

InitBuild ==
    /\ currentProvider = DefaultProvider
    /\ pc = "AudioReady"
    /\ ai = DefaultProvider
    /\ onStatus = NoCallback
    /\ pending = <<>>
    /\ requests = <<>>
    /\ specData = UndefV
    /\ blueprint \in BuildBlueprints
    /\ audio \in BuildAudios
    /\ heap = <<>>
    /\ refinedFrom = <<>>
    /\ argGame = 0
    /\ argSnapshot = <<>>
    /\ settled = NotSettled
    /\ calls = <<>>
    /\ prefs \in BuildPrefsSet
    /\ input = NoCall
    /\ output = NoCall
    /\ preview = NotMounted

NextBuild ==
    \/ \E cb \in CallbacksFor({BuildMsg}) : CallGeneratePrototype(cb)
    \/ \E out \in BuildOutcomes : BuildSettles(out)

SpecBuild == InitBuild /\ [][NextBuild]_vars

(***************************************************************************)
(* geminiService.ts exports a generateBlueprint and a generatePrototype of *)
(* its own (lines 197-281 and 334-480).  They send their requests to the   *)
(* client of the module, parse the responses without checking required     *)
(* fields, and build the prompt of the Build request inline.               *)
(***************************************************************************)
LegacyBlueprintCall == "geminiService.generateBlueprint"
LegacyPrototypeCall == "geminiService.generatePrototype"

\* await ai.models.generateContent; parseAndSanitize(response.text || "{}")
AwaitParse(out) ==
    IF out.kind = "reject" THEN TryFail(out.msg, "rejected")
    ELSE LET AfterParse(p) == IF ~p.ok THEN TryFail(p.err, "unparseable") ELSE TryOk(p.val)
         IN  AfterParse(parseAndSanitize(TextOrDefault(out.text)))

\* prototypeData.html when the response parsed to null
NullHtmlTypeError == <<"Cannot read properties of null (reading 'html')">>

LegacyVersion == "1.0.0"

\* The manifest object literal of lines 459-467.
LegacyManifest(bp, prototypeData, p, now) ==
    [BuildManifest(bp, prototypeData, p, now) EXCEPT !.version = LegacyVersion]

\* The inline prompt of lines 365-441 prints blueprint.title and blueprint.summary
\* in a template literal, before the try block.
LegacyPromptThrows(bp) ==
    ToStringThrows(Get(bp, K.title)) \/ ToStringThrows(Get(bp, K.summary))

\* The inline prompt of lines 365-441: of its sections the title and summary of the
\* blueprint, the seed in quotes and the audio part.
LegacyPrototypePrompt(bp, p, audioContextStr) ==
    <<"BLUEPRINT:", TitleHeader>> \o TextOf(Get(bp, K.title))
    \o <<SummaryHeader>> \o TextOf(Get(bp, K.summary))
    \o <<"DETERMINISTIC SEED: \"", p.seed, "\"">>
    \o <<AudioHeader>> \o audioContextStr

\* geminiService.generateBlueprint up to its first await (lines 197-231)
CallLegacyGenerateBlueprint(cb) ==
    /\ pc = "Idle"
    /\ calls' = Append(calls, LegacyBlueprintCall)
    /\ onStatus' = cb
    /\ IF StatusThrows(cb, QuantizingMsg)
       THEN /\ pc' = "Failed"
            /\ settled' = Thrown(LegacyBlueprintCall, "Quantize", "callback", CallbackError)
            /\ UNCHANGED <<pending, requests>>
       ELSE /\ pc' = "Quantizing"
            /\ pending' = Append(pending, Request("Quantize", ModuleClient, <<>>))
            /\ requests' = Append(requests,
                                  LogEntry(Len(calls'),
                                           Request("Quantize", ModuleClient, <<>>)))
            /\ settled' = NotSettled
    /\ UNCHANGED <<input, output, preview>>
    /\ UNCHANGED <<currentProvider, ai, specData, blueprint, audio, heap, refinedFrom,
                   argGame, argSnapshot, prefs>>

\* geminiService.generateBlueprint from the Quantize response to its second await
\* (lines 231-267)
LegacyQuantizeSettles(out) ==
    /\ pc = "Quantizing"
    /\ calls[Len(calls)] = LegacyBlueprintCall
    /\ pending # <<>>
    /\ Head(pending).phase = "Quantize"
    /\ \E r \in {AwaitParse(out)} :
           IF ~r.ok
           THEN /\ pc' = "Failed"
                /\ settled' = Thrown(LegacyBlueprintCall, "Quantize", r.cause,
                                     QuantizeCatch(r.err))
                /\ pending' = Tail(pending)
                /\ requests' = Answered(out)
                /\ UNCHANGED specData
           ELSE IF StatusThrows(onStatus, ArchitectingMsg)
           THEN /\ pc' = "Failed"
                /\ settled' = Thrown(LegacyBlueprintCall, "Architect", "callback",
                                     CallbackError)
                /\ pending' = Tail(pending)
                /\ requests' = Answered(out)
                /\ specData' = r.val
           ELSE /\ pc' = "Architecting"
                /\ specData' = r.val
                /\ pending' = Append(Tail(pending), Request("Architect", ModuleClient, <<>>))
                /\ requests' = Append(Answered(out),
                                      LogEntry(Len(calls),
                                               Request("Architect", ModuleClient, <<>>)))
                /\ UNCHANGED settled
    /\ UNCHANGED <<input, output, preview>>
    /\ UNCHANGED <<currentProvider, ai, onStatus, blueprint, audio, heap, refinedFrom,
                   argGame, argSnapshot, calls, prefs>>

\* geminiService.generateBlueprint from the Architect response to its return
\* (lines 267-281)
LegacyArchitectSettles(out) ==
    /\ pc = "Architecting"
    /\ calls[Len(calls)] = LegacyBlueprintCall
    /\ pending # <<>>
    /\ Head(pending).phase = "Architect"
    /\ pending' = Tail(pending)
    /\ requests' = Answered(out)
    /\ onStatus' = NoCallback
    /\ \E r \in {AwaitParse(out)} :
           IF ~r.ok
           THEN /\ pc' = "Failed"
                /\ settled' = Thrown(LegacyBlueprintCall, "Architect", r.cause,
                                     ArchitectCatch(r.err))
                /\ UNCHANGED blueprint
           ELSE /\ pc' = "BlueprintReady"
                /\ blueprint' = MergeBlueprint(specData, r.val)
                /\ settled' = Returned(LegacyBlueprintCall, 0)
    /\ UNCHANGED <<input, output, preview>>
    /\ UNCHANGED <<currentProvider, ai, specData, audio, heap, refinedFrom, argGame,
                   argSnapshot, calls, prefs>>

\* geminiService.generatePrototype up to its await (lines 334-444)
CallLegacyGeneratePrototype(cb) ==
    /\ pc = "AudioReady"
    /\ calls' = Append(calls, LegacyPrototypeCall)
    /\ \E audioContextStr \in {AudioContextStr(audio)} :
           IF StatusThrows(cb, BuildMsg)
           THEN /\ pc' = "Failed"
                /\ settled' = Thrown(LegacyPrototypeCall, "Build", "callback", CallbackError)
                /\ UNCHANGED <<pending, requests>>
           ELSE IF audioContextStr.threw
           THEN /\ pc' = "Failed"
                /\ settled' = Thrown(LegacyPrototypeCall, "Build", "type error",
                                     audioContextStr.err)
                /\ UNCHANGED <<pending, requests>>
           ELSE IF LegacyPromptThrows(blueprint)
           THEN /\ pc' = "Failed"
                /\ settled' = Thrown(LegacyPrototypeCall, "Build", "type error",
                                     <<PrimitiveTypeError>>)
                /\ UNCHANGED <<pending, requests>>
           ELSE /\ pc' = "Building"
                /\ pending' = Append(pending,
                                     Request("Build", ModuleClient,
                                             LegacyPrototypePrompt(blueprint, prefs,
                                                                   audioContextStr.text)))
                /\ requests' = Append(requests,
                                      LogEntry(Len(calls'),
                                               Request("Build", ModuleClient,
                                                       LegacyPrototypePrompt(
                                                           blueprint, prefs,
                                                           audioContextStr.text))))
                /\ settled' = NotSettled
    /\ UNCHANGED <<input, output, preview>>
    /\ UNCHANGED <<currentProvider, ai, onStatus, specData, blueprint, audio, heap,
                   refinedFrom, argGame, argSnapshot, prefs>>

\* geminiService.generatePrototype from the response to its return (lines 444-479)
LegacyBuildSettles(out) ==
    /\ pc = "Building"
    /\ calls[Len(calls)] = LegacyPrototypeCall
    /\ pending # <<>>
    /\ Head(pending).phase = "Build"
    /\ pending' = Tail(pending)
    /\ requests' = Answered(out)
    /\ \E r \in {AwaitParse(out)} :
           IF ~r.ok
           THEN /\ pc' = "Failed"
                /\ settled' = Thrown(LegacyPrototypeCall, "Build", r.cause, BuildCatch(r.err))
                /\ UNCHANGED <<heap, refinedFrom>>
           ELSE IF r.val.t = "null"
           THEN /\ pc' = "Failed"
                /\ settled' = Thrown(LegacyPrototypeCall, "Build", "type error",
                                     BuildCatch(NullHtmlTypeError))
                /\ UNCHANGED <<heap, refinedFrom>>
           ELSE /\ pc' = "Done"
                /\ heap' = Append(heap,
                                  PrototypeGame(blueprint, r.val, audio,
                                                LegacyManifest(blueprint, r.val, prefs,
                                                               Len(requests))))
                /\ refinedFrom' = Append(refinedFrom, 0)
                /\ settled' = Returned(LegacyPrototypeCall, Len(heap'))
    /\ UNCHANGED <<input, output, preview>>
    /\ UNCHANGED <<currentProvider, ai, onStatus, specData, blueprint, audio, argGame,
                   argSnapshot, calls, prefs>>

\* [null]
NullArrayText ==
    <<"[", "n", "u", "l", "l", "]">>
\* {"title":{"toString":1}}
QuantizeUnprintableText ==
    <<"{", "\"", "t", "i", "t", "l", "e", "\"", ":", "{", "\"", "t", "o", "S", "t",
      "r", "i", "n", "g", "\"", ":", "1", "}", "}">>
\* The Quantize answers of the pipeline, an array and a title that cannot be printed.
LegacyQuantizeOutcomes ==
    QuantizeOutcomes \cup {Resolve(NullArrayText), Resolve(QuantizeUnprintableText)}

\* The Architect answers of the pipeline, and an array.
LegacyArchitectOutcomes == ArchitectOutcomes \cup {Resolve(NullArrayText)}

\* The Soundscape answers of the pipeline, and one whose soundEffects is a string.
LegacySoundscapeOutcomes == SoundscapeOutcomes \cup {Resolve(SoundscapeStringEffectsText)}

\* The Build answers of the pipeline, and the text null.
LegacyBuildOutcomes == BuildOutcomes \cup {Resolve(NullText)}

NextLegacy ==
    \/ \E cb \in CallbacksFor({QuantizingMsg, ArchitectingMsg}) :
          CallLegacyGenerateBlueprint(cb)
    \/ \E out \in LegacyQuantizeOutcomes : LegacyQuantizeSettles(out)
    \/ \E out \in LegacyArchitectOutcomes : LegacyArchitectSettles(out)
    \/ \E cb \in CallbacksFor({SoundscapeMsg}) : CallGenerateSoundscape(cb)
    \/ \E out \in LegacySoundscapeOutcomes : SoundscapeSettles(out)
    \/ \E cb \in CallbacksFor({BuildMsg}) : CallLegacyGeneratePrototype(cb)
    \/ \E out \in LegacyBuildOutcomes : LegacyBuildSettles(out)

SpecLegacy == Init /\ [][NextLegacy]_vars

(***************************************************************************)
(* The helper functions called on their own, each on arguments drawn from  *)
(* a bounded set.  The pipeline stands still meanwhile.                    *)
(***************************************************************************)
pipelineVars ==
    <<currentProvider, pc, ai, onStatus, pending, requests, specData, blueprint, audio,
      heap, refinedFrom, argGame, argSnapshot, settled, calls, prefs>>

Quiescent ==
    /\ currentProvider = DefaultProvider
    /\ pc = "Idle"
    /\ ai = DefaultProvider
    /\ onStatus = NoCallback
    /\ pending = <<>>
    /\ requests = <<>>
    /\ specData = UndefV
    /\ blueprint = UndefV
    /\ audio = UndefV
    /\ heap = <<>>
    /\ refinedFrom = <<>>
    /\ argGame = 0
    /\ argSnapshot = <<>>
    /\ settled = NotSettled
    /\ calls = <<>>
    /\ prefs = RefinePrefs

\* What a helper returned (or threw), with the name of the helper.
Outcome(fn, ret) == [fn |-> fn, ret |-> ret]

(***************************************************************************)
(* parseAndSanitize on a raw text: a body (a structured payload or not)    *)
(* between a prefix and a suffix of fence markers, prose and whitespace.   *)
(***************************************************************************)
\* Texts that parse as they are.
Payloads ==
    {\* {"a":"1"}
     <<"{", "\"", "a", "\"", ":", "\"", "1", "\"", "}">>,
     \* {}
     <<"{", "}">>,
     \* {"a":"1","b":null}
     <<"{", "\"", "a", "\"", ":", "\"", "1", "\"", ",", "\"", "b", "\"", ":", "n", "u",
       "l", "l", "}">>,
     \* [{"a":"1"}]
     <<"[", "{", "\"", "a", "\"", ":", "\"", "1", "\"", "}", "]">>,
     \* [{"a":"1"},{"b":null}]
     <<"[", "{", "\"", "a", "\"", ":", "\"", "1", "\"", "}", ",", "{", "\"", "b", "\"",
       ":", "n", "u", "l", "l", "}", "]">>,
     \* [42]
     <<"[", "4", "2", "]">>,
     \* []
     <<"[", "]">>,
     \* null
     <<"n", "u", "l", "l">>,
     \* {"title":"T","0":"x"}: an index key after a name
     <<"{", "\"", "t", "i", "t", "l", "e", "\"", ":", "\"", "T", "\"", ",", "\"", "0",
       "\"", ":", "\"", "x", "\"", "}">>,
     \* {"a":"}{"}: braces inside a string
     <<"{", "\"", "a", "\"", ":", "\"", "}", "{", "\"", "}">>,
     \* [{"a":"```"},{"b":null}]: a fence marker inside a string
     <<"[", "{", "\"", "a", "\"", ":", "\"", "BACKQUOTE", "BACKQUOTE", "BACKQUOTE",
       "\"", "}", ",", "{", "\"", "b", "\"", ":", "n", "u", "l", "l", "}", "]">>,
     \* [1.50,-0e2]: numbers in other than their shortest form
     <<"[", "1", ".", "5", "0", ",", "-", "0", "e", "2", "]">>,
     \* [12345678901234567]: more digits than a double holds
     <<"[", "1", "2", "3", "4", "5", "6", "7", "8", "9", "0", "1", "2", "3", "4", "5",
       "6", "7", "]">>}

\* Texts that do not parse as they are.
Unparseable ==
    {\* the empty text
     <<>>,
     \* Sorry
     <<"S", "o", "r", "r", "y">>,
     \* {
     <<"{">>,
     \* [
     <<"[">>,
     \* }{
     <<"}", "{">>,
     \* {"a":"1"
     <<"{", "\"", "a", "\"", ":", "\"", "1", "\"">>,
     \* {Sorry}
     <<"{", "S", "o", "r", "r", "y", "}">>,
     \* {"a":"1"}}
     <<"{", "\"", "a", "\"", ":", "\"", "1", "\"", "}", "}">>,
     \* [```]
     <<"[", "BACKQUOTE", "BACKQUOTE", "BACKQUOTE", "]">>,
     \* [\f42]: a form feed, which trim removes and JSON.parse does not skip
     <<"[", "\f", "4", "2", "]">>,
     \* "a":"{"{"b":"x"}: the first brace stands inside a string
     <<"\"", "a", "\"", ":", "\"", "{", "\"", "{", "\"", "b", "\"", ":", "\"", "x",
       "\"", "}">>}

Prefixes ==
    {\* nothing
     <<>>,
     \* a blank
     <<" ">>,
     \* a form feed
     <<"\f">>,
     \* Here: 
     <<"H", "e", "r", "e", ":", " ">>,
     \* ```json and a line end
     <<"BACKQUOTE", "BACKQUOTE", "BACKQUOTE", "j", "s", "o", "n", "\n">>,
     \* ``` and a line end
     <<"BACKQUOTE", "BACKQUOTE", "BACKQUOTE", "\n">>,
     \* Here: ```JSON and a line end
     <<"H", "e", "r", "e", ":", " ", "BACKQUOTE", "BACKQUOTE", "BACKQUOTE", "J", "S",
       "O", "N", "\n">>,
     \* Note {x} : prose with braces
     <<"N", "o", "t", "e", " ", "{", "x", "}", " ">>}

Suffixes ==
    {\* nothing
     <<>>,
     \* a line end
     <<"\n">>,
     \* a line end and ```
     <<"\n", "BACKQUOTE", "BACKQUOTE", "BACKQUOTE">>,
     \*  Done.
     <<" ", "D", "o", "n", "e", ".">>,
     \* a line end, ```, a line end and Done.
     <<"\n", "BACKQUOTE", "BACKQUOTE", "BACKQUOTE", "\n", "D", "o", "n", "e", ".">>,
     \*  ok }: prose with a brace
     <<" ", "o", "k", " ", "}">>}

SanitizeInputs ==
    {[fn |-> "parseAndSanitize", pre |-> pre, body |-> body, suf |-> suf] :
        pre \in Prefixes, body \in Payloads \cup Unparseable, suf \in Suffixes}

\* The raw text of an input.
RawText(in) == in.pre \o in.body \o in.suf

InitSanitize ==
    /\ Quiescent
    /\ input \in SanitizeInputs
    /\ output = NoCall
    /\ preview = NotMounted

CallParseAndSanitize ==
    /\ input.fn = "parseAndSanitize"
    /\ output = NoCall
    /\ output' = Outcome("parseAndSanitize", parseAndSanitize(RawText(input)))
    /\ UNCHANGED <<input, preview>>
    /\ UNCHANGED pipelineVars

NextSanitize == CallParseAndSanitize

SpecSanitize == InitSanitize /\ [][NextSanitize]_vars

(***************************************************************************)
(* validateStructure on a parsed value, a list of required keys and a      *)
(* context name.                                                           *)
(***************************************************************************)
\* What a key of a value holds: nothing (the key is absent), null, a string, an array.
Holdings == {UndefV, NullV, StrV(<<"1">>), ArrJ(<<>>)}

\* The entries of an object, for what its keys a, b and c hold.
EntriesOf(ha, hb, hc) ==
    (IF ha = UndefV THEN <<>> ELSE <<Entry(K.a, ha)>>)
    \o (IF hb = UndefV THEN <<>> ELSE <<Entry(K.b, hb)>>)
    \o (IF hc = UndefV THEN <<>> ELSE <<Entry(K.c, hc)>>)

ValidateValues ==
    {ObjJ(EntriesOf(ha, hb, hc)) : ha \in Holdings, hb \in Holdings, hc \in Holdings}
    \cup {NullV, NumV(<<"4", "2">>), NumV(<<"0">>), StrV(<<"a">>), StrV(<<>>), TrueV, FalseV,
          UndefV, ArrJ(<<>>), ArrJ(<<NumV(<<"4", "2">>)>>)}

ValidateKeys ==
    {<<>>, <<K.a>>, <<K.b>>, <<K.c>>,
     <<K.a, K.b>>, <<K.b, K.a>>, <<K.a, K.c>>, <<K.c, K.a>>, <<K.b, K.c>>, <<K.c, K.b>>,
     <<K.a, K.b, K.c>>, <<K.a, K.c, K.b>>, <<K.b, K.a, K.c>>, <<K.b, K.c, K.a>>,
     <<K.c, K.a, K.b>>, <<K.c, K.b, K.a>>,
     <<K.constructor>>, <<K.a, K.constructor>>, <<K.length>>, <<<<"0">>, K.a>>}

ValidateContexts == {"Spec Phase", "Build Phase"}

ValidateInputs ==
    {[fn |-> "validateStructure", data |-> d, requiredKeys |-> r, context |-> c] :
        d \in ValidateValues, r \in ValidateKeys, c \in ValidateContexts}

InitValidate ==
    /\ Quiescent
    /\ input \in ValidateInputs
    /\ output = NoCall
    /\ preview = NotMounted

CallValidateStructure ==
    /\ input.fn = "validateStructure"
    /\ output = NoCall
    /\ output' = Outcome("validateStructure",
                         validateStructure(input.data, input.requiredKeys, input.context))
    /\ UNCHANGED <<input, preview>>
    /\ UNCHANGED pipelineVars

NextValidate == CallValidateStructure

SpecValidate == InitValidate /\ [][NextValidate]_vars

(***************************************************************************)
(* compressCodeForContext on a text: a few segments one after another.     *)
(***************************************************************************)
MaxSegments == 3

RECURSIVE Times(_, _)
\* n copies of a text
Times(seg, n) == IF n = 0 THEN <<>> ELSE seg \o Times(seg, n - 1)

\* A numeric array of 15 entries, with signs, decimals and blanks of several kinds
\* (CRLF line ends, a no-break space).
Array15 ==
    <<"[", " ", "-", "1", ".", "5", ",", ".", "5", ",">>
    \o Times(<<"\r", "\n", "2", ",">>, 12) \o <<"U+00A0", "7", "\t", "]">>

\* A numeric array of 10 entries: one short of the pattern.
Array10 == <<"[">> \o Times(<<"1", ",">>, 9) \o <<"1", "]">>

\* Numeric arrays of 15 and of 11 entries with a blank before the first comma.
Array15Spaced == <<"[", "1", " ", ",">> \o Times(<<"2", ",">>, 13) \o <<"3", "]">>
Array11Spaced == <<"[", "1", " ", ",">> \o Times(<<"1", ",">>, 9) \o <<"1", "]">>

\* The rest of a data URI after `data:`.
UriRest == <<"a", "/", "b">> \o Base64Lit \o <<"A">>

Segments ==
    {DataUri, NumericArray, Array15, Array10, Array15Spaced, Array11Spaced, DataLit, UriRest,
     <<"x">>, <<"[">>, <<"1", ",">>, <<"]">>, Base64Placeholder, GeometryPlaceholder}

SegmentLists == UNION {[1..n -> Segments] : n \in 0..MaxSegments}

RECURSIVE Flatten(_)
\* The segments one after another.
Flatten(segs) == IF segs = <<>> THEN <<>> ELSE Head(segs) \o Flatten(Tail(segs))

CompressInputs == {[fn |-> "compressCodeForContext", segs |-> l] : l \in SegmentLists}

InitCompress ==
    /\ Quiescent
    /\ input \in CompressInputs
    /\ output = NoCall
    /\ preview = NotMounted

CallCompressCodeForContext ==
    /\ input.fn = "compressCodeForContext"
    /\ output = NoCall
    /\ output' = Outcome("compressCodeForContext", compressCodeForContext(Flatten(input.segs)))
    /\ UNCHANGED <<input, preview>>
    /\ UNCHANGED pipelineVars

NextCompress == CallCompressCodeForContext

SpecCompress == InitCompress /\ [][NextCompress]_vars

(***************************************************************************)
(* The GamePreview component.  A click runs its handler and React renders  *)
(* at once: the effects still pending from the last commit run first, then *)
(* the queued state updates are applied and the result is committed.  The  *)
(* state updates of a click belong to the synchronous lane; those queued   *)
(* by an effect or by the message listener wait for a later render, unless *)
(* the render in progress takes every lane.  Which of the two a render     *)
(* does is React's choice (root and version), so both are allowed.  The    *)
(* effects of a commit run in a later step, or at the start of the next    *)
(* render; a message is handled whenever it arrives, with no render.       *)
(***************************************************************************)
MaxMountKey == 3

\* Telemetry is taken while fewer than MaxQueued updates of the telemetry state
\* wait for a render.
MaxQueued == 1

\* The html prop: the artifacts the parent hands over.
PreviewHtmls == {"<html>A</html>", "<html>B</html>"}

\* A field of a message: a number, or not there.
Num(n) == [present |-> TRUE, n |-> n]
Absent == [present |-> FALSE, n |-> 0]

\* x || 0 for such a field
OrZero(x) == IF x.present THEN x.n ELSE 0

\* useState<TelemetryData>({ fps: 0, entities: 0 })
NoTelemetry == [fps |-> 0, entities |-> 0, frameTime |-> Absent]

\* e.data of a message event.
MessageData(type, fps, entities, frameTime) ==
    [type |-> type, fps |-> fps, entities |-> entities, frameTime |-> frameTime]

\* The messages the window receives: telemetry with both counts, telemetry without
\* fps and with a frame time, and a message of another type.
TelemetryMessages ==
    {MessageData("forge-telemetry", Num(60), Num(12), Absent),
     MessageData("forge-telemetry", Absent, Num(7), Num(16)),
     MessageData("resize", Num(30), Num(1), Absent)}

\* The four useState hooks of the component.
HookNames == {"isPlaying", "isCrashed", "telemetry", "mountKey"}

\* A state update queued on a hook: setX(value), or setX(prev => prev + 1).  sync
\* tells the lane: TRUE for an update made in a click handler.
SetTo(value, sync) == [inc |-> FALSE, value |-> value, sync |-> sync]
Increment(sync) == [inc |-> TRUE, value |-> 0, sync |-> sync]

\* A hook: the state its queue starts from, and the updates not yet applied to it.
Hook(state) == [base |-> state, queue |-> <<>>]

\* iframeRef.current is null: no iframe is rendered.
NoFrame == [key |-> -1, doc |-> "none", fresh |-> FALSE, born |-> -1]

\* The iframe React creates for a key: an empty document nothing was written into.
\* born tells how many reloads and html effects had run when it was created.
MountedFrame(key, born) == [key |-> key, doc |-> "empty", fresh |-> TRUE, born |-> born]

\* No doc.write has happened.
NoWrite ==
    [key |-> -1, html |-> "none", prop |-> "none", fresh |-> FALSE, halted |-> FALSE,
     born |-> -1]

\* The effect of lines 213-219, as scheduled by a commit.
ResetEffect(html, isCrashed) == [fn |-> "reset", html |-> html, isCrashed |-> isCrashed]

\* The effect of lines 221-231, as scheduled by a commit: it sees the html and the
\* isCrashed of its render.
WriteEffect(html, isCrashed) == [fn |-> "write", html |-> html, isCrashed |-> isCrashed]

\* The effect of lines 233-246, scheduled by the first commit only.
ListenEffect(html) == [fn |-> "listen", html |-> html, isCrashed |-> FALSE]

\* The component after its first render: useState defaults, the iframe of key 0, the
\* three effects pending.  halted, resets, last and lastWrite record what has
\* happened: whether panic stop was clicked with no reload click and no html
\* change since, how often reload or the html effect ran, which of start, panic
\* stop and reset (reload or html effect) queued its updates last, and the last
\* doc.write.
MountedPreview(html) ==
    [mounted |-> TRUE, html |-> html, isPlaying |-> FALSE, isCrashed |-> FALSE,
     telemetry |-> NoTelemetry, mountKey |-> 0,
     hooks |-> [isPlaying |-> Hook(FALSE), isCrashed |-> Hook(FALSE),
                telemetry |-> Hook(NoTelemetry), mountKey |-> Hook(0)],
     frame |-> MountedFrame(0, 0),
     effects |-> <<ResetEffect(html, FALSE), WriteEffect(html, FALSE), ListenEffect(html)>>,
     listening |-> FALSE,
     halted |-> FALSE, resets |-> 0, last |-> "none", lastWrite |-> NoWrite]

\* A state setter is called: the update is queued on its hook.
Dispatch(p, name, update) == [p EXCEPT !.hooks[name].queue = Append(@, update)]

\* doc.open(); doc.write(html); doc.close() on the current iframe.
DocWrite(p, html) ==
    [p EXCEPT !.frame = [@ EXCEPT !.doc = html, !.fresh = FALSE],
              !.lastWrite = [key |-> p.frame.key, html |-> html, prop |-> p.html,
                             fresh |-> p.frame.fresh, halted |-> p.halted,
                             born |-> p.frame.born]]

\* setIsPlaying(false); setIsCrashed(false); setTelemetry(...); setMountKey(prev => prev + 1)
QueueReset(p, sync) ==
    [Dispatch(Dispatch(Dispatch(Dispatch(p, "isPlaying", SetTo(FALSE, sync)),
                                "isCrashed", SetTo(FALSE, sync)),
                       "telemetry", SetTo(NoTelemetry, sync)),
              "mountKey", Increment(sync))
        EXCEPT !.resets = @ + 1, !.last = "reset"]

\* One pending effect runs.
RunEffect(p, e) ==
    IF e.fn = "reset" THEN QueueReset(p, FALSE)
    ELSE IF e.fn = "listen" THEN [p EXCEPT !.listening = TRUE]
    ELSE IF p.frame # NoFrame /\ ~e.isCrashed THEN DocWrite(p, e.html)
    ELSE p

RECURSIVE RunEffectsIn(_, _)
\* The effects run in order.
RunEffectsIn(p, effects) ==
    IF effects = <<>> THEN p
    ELSE RunEffectsIn(RunEffect(p, Head(effects)), Tail(effects))

\* The pending effects run.
FlushPassiveEffects(p) == [RunEffectsIn(p, p.effects) EXCEPT !.effects = <<>>]

\* One queued state update applied to the state of its hook.
ApplyUpdate(state, update) == IF update.inc THEN state + 1 ELSE update.value

RECURSIVE Reduce(_, _, _, _, _)
\* A hook's queue in a render: the updates of the lanes rendered are applied in
\* order; one that is left out stays queued, with every update after it, and the
\* state before it is what the next render starts from.
Reduce(state, queue, all, base, rest) ==
    IF queue = <<>>
    THEN [state |-> state, base |-> IF rest = <<>> THEN state ELSE base, queue |-> rest]
    ELSE IF ~all /\ ~Head(queue).sync
    THEN Reduce(state, Tail(queue), all, IF rest = <<>> THEN state ELSE base,
                Append(rest, Head(queue)))
    ELSE Reduce(ApplyUpdate(state, Head(queue)), Tail(queue), all, base,
                IF rest = <<>> THEN rest ELSE Append(rest, [Head(queue) EXCEPT !.sync = TRUE]))

\* The iframe after a commit: none in the crashed view, a new one when there was none
\* or the key changed, else the one there was.
FrameAfterCommit(frame, isCrashed, mountKey, resets) ==
    IF isCrashed THEN NoFrame
    ELSE IF frame = NoFrame \/ frame.key # mountKey THEN MountedFrame(mountKey, resets)
    ELSE frame

\* The effects a commit schedules: those with a dependency that changed.
EffectsOfCommit(before, isCrashed, mountKey, html) ==
    (IF html # before.html THEN <<ResetEffect(html, isCrashed)>> ELSE <<>>)
    \o (IF \/ mountKey # before.mountKey
           \/ isCrashed # before.isCrashed
           \/ html # before.html
        THEN <<WriteEffect(html, isCrashed)>>
        ELSE <<>>)

\* The component renders with the html prop and commits: the pending effects run,
\* then each hook works through its queue.
Render(p, html, all) ==
    LET Commit(q, r) ==
            [q EXCEPT !.html = html,
                      !.isPlaying = r.isPlaying.state,
                      !.isCrashed = r.isCrashed.state,
                      !.telemetry = r.telemetry.state,
                      !.mountKey = r.mountKey.state,
                      !.hooks = [n \in HookNames |->
                                    [base |-> r[n].base, queue |-> r[n].queue]],
                      !.frame = FrameAfterCommit(q.frame, r.isCrashed.state,
                                                 r.mountKey.state, q.resets),
                      !.effects = EffectsOfCommit(q, r.isCrashed.state,
                                                  r.mountKey.state, html)]
        Hooks(q) ==
            Commit(q, [n \in HookNames |->
                          Reduce(q.hooks[n].base, q.hooks[n].queue, all,
                                 q.hooks[n].base, <<>>)])
    IN  Hooks(FlushPassiveEffects(p))

\* Mutant: the Start Game overlay is there in the crashed view too.
StartGameOfferedWhenCrashed(p) == ~p.isPlaying

\* The Start Game overlay is rendered: not in the crashed view, and only while not
\* playing.
StartGameOffered(p) == ~p.isCrashed /\ ~p.isPlaying

\* The toolbar with the panic stop button is rendered: not in the crashed view.
PanicStopOffered(p) == ~p.isCrashed

\* handleStartGame
handleStartGame(p) == [Dispatch(p, "isPlaying", SetTo(TRUE, TRUE)) EXCEPT !.last = "start"]

\* handleReload
handleReload(p) == [QueueReset(p, TRUE) EXCEPT !.halted = FALSE]

\* handlePanicStop
handlePanicStop(p) ==
    [Dispatch(Dispatch(p, "isPlaying", SetTo(FALSE, TRUE)), "isCrashed", SetTo(TRUE, TRUE))
        EXCEPT !.halted = TRUE,
               !.last = "panic",
               !.frame = IF @ = NoFrame THEN @ ELSE [@ EXCEPT !.doc = "about:blank"]]

\* handleMessage: a forge-telemetry message sets the telemetry, absent counts as 0;
\* any other message is ignored.
handleMessage(p, data) ==
    IF data.type = "forge-telemetry"
    THEN Dispatch(p, "telemetry",
                  SetTo([fps |-> OrZero(data.fps), entities |-> OrZero(data.entities),
                         frameTime |-> data.frameTime], FALSE))
    ELSE p

\* Every queued state update has been rendered.
AllRendered(p) == \A n \in HookNames : p.hooks[n].queue = <<>>

\* The html effect of the last commit has not run yet.
HtmlEffectPending(p) == \E i \in 1..Len(p.effects) : p.effects[i].fn = "reset"

\* Reload and html effect runs so far, those pending included.
ResetsAhead(p) ==
    p.resets + Cardinality({i \in 1..Len(p.effects) : p.effects[i].fn = "reset"})

InitPreview ==
    /\ Quiescent
    /\ input = NoCall
    /\ output = NoCall
    /\ preview \in {MountedPreview(html) : html \in PreviewHtmls}

\* The parent renders the component with another html.
HtmlChanges(html) ==
    /\ html # preview.html
    /\ ResetsAhead(preview) < MaxMountKey
    /\ \E all \in BOOLEAN :
          preview' = Render([preview EXCEPT !.halted = FALSE], html, all)
    /\ UNCHANGED <<input, output>>
    /\ UNCHANGED pipelineVars

\* React runs the effects of the last commit.
PassiveEffectsRun ==
    /\ preview.effects # <<>>
    /\ preview' = FlushPassiveEffects(preview)
    /\ UNCHANGED <<input, output>>
    /\ UNCHANGED pipelineVars

\* React renders the state updates that wait in the queues.
RenderRuns ==
    /\ ~AllRendered(preview)
    /\ preview' = Render(preview, preview.html, TRUE)
    /\ UNCHANGED <<input, output>>
    /\ UNCHANGED pipelineVars

\* A click on Start Game.
ClickStartGame ==
    /\ StartGameOffered(preview)
    /\ \E all \in BOOLEAN :
          preview' = Render(handleStartGame(preview), preview.html, all)
    /\ UNCHANGED <<input, output>>
    /\ UNCHANGED pipelineVars

\* A click on Hard Reset, or on Reboot System in the crashed view.
ClickReload ==
    /\ ResetsAhead(preview) < MaxMountKey
    /\ \E all \in BOOLEAN :
          preview' = Render(handleReload(preview), preview.html, all)
    /\ UNCHANGED <<input, output>>
    /\ UNCHANGED pipelineVars

\* A click on Panic Stop.
ClickPanicStop ==
    /\ PanicStopOffered(preview)
    /\ \E all \in BOOLEAN :
          preview' = Render(handlePanicStop(preview), preview.html, all)
    /\ UNCHANGED <<input, output>>
    /\ UNCHANGED pipelineVars

\* The window receives a message while the listener is registered.
TelemetryArrives(data) ==
    /\ preview.listening
    /\ Len(preview.hooks.telemetry.queue) < MaxQueued
    /\ preview' = handleMessage(preview, data)
    /\ UNCHANGED <<input, output>>
    /\ UNCHANGED pipelineVars

NextPreview ==
    \/ \E data \in TelemetryMessages : TelemetryArrives(data)
    \/ \E html \in PreviewHtmls : HtmlChanges(html)
    \/ PassiveEffectsRun
    \/ RenderRuns
    \/ ClickStartGame
    \/ ClickReload
    \/ ClickPanicStop

SpecPreview == InitPreview /\ [][NextPreview]_vars

\* React runs the effects of a commit once the commit is done, and renders the
\* state updates that were queued.
SpecPreviewFair ==
    InitPreview /\ [][NextPreview]_vars /\ WF_vars(PassiveEffectsRun) /\ WF_vars(RenderRuns)

(***************************************************************************)
(* Properties.  They read the request log, which keeps each provider       *)
(* answer as it was given, and judge it again from the text.               *)
(***************************************************************************)
PhaseOrder == <<"Quantize", "Architect", "Soundscape", "Build">>

Answer(i) == requests[i].out
IsAnswered(i) == Answer(i).kind # "pending"

\* The answer is a text that parses to an object holding every one of the keys.
ResponseValid(out, keys) ==
    /\ out.kind = "resolve"
    /\ parseAndSanitize(TextOrDefault(out.text)).ok
    /\ parseAndSanitize(TextOrDefault(out.text)).val.t = "obj"
    /\ \A i \in 1..Len(keys) : Has(parseAndSanitize(TextOrDefault(out.text)).val, keys[i])

\* The answer is a rejection or a text no strategy can parse.
ResponseUnusable(out) ==
    \/ out.kind = "reject"
    \/ out.kind = "resolve" /\ ~parseAndSanitize(TextOrDefault(out.text)).ok

RequiredOf(phase) ==
    CASE phase = "Quantize" -> SpecRequired
      [] phase = "Architect" -> ArchRequired
      [] phase = "Build" -> BuildRequired
      [] OTHER -> <<>>

PrefixOf(phase) ==
    CASE phase = "Quantize" -> QuantizePrefix
      [] phase = "Architect" -> ArchitectPrefix
      [] phase = "Build" -> BuildPrefix
      [] OTHER -> RefinePrefix

CallOf(phase) ==
    CASE phase \in {"Quantize", "Architect"} -> "generateBlueprint"
      [] phase = "Soundscape" -> "generateSoundscape"
      [] phase = "Build" -> "generatePrototype"
      [] OTHER -> "refineGame"

\* The answer makes its phase fail: fatal for Quantize, Architect, Build and Refine.
PhaseFails(phase, out) ==
    IF phase = "Refine"
    THEN \/ ResponseUnusable(out)
         \/ parseAndSanitize(TextOrDefault(out.text)).val.t = "null"
    ELSE ~ResponseValid(out, RequiredOf(phase))

RequestsOfCall(c) == SelectSeq(requests, LAMBDA r : r.call = c)
RequestsOfPhase(c, phase) == SelectSeq(requests, LAMBDA r : r.call = c /\ r.phase = phase)
\* Call number c has settled (returned or thrown).
CallSettled(c) == c < Len(calls) \/ (c = Len(calls) /\ settled.how # "none")

\* C1: within one pipeline invocation the provider requests are issued in the order
\* Quantize, Architect, Soundscape, Build (refinements follow), never more than one
\* is in flight, a request is issued only once the request before it has been
\* answered, the Architect request only after a Quantize answer that parsed and
\* validated, the Soundscape request only after an Architect answer that did; and
\* when the Quantize phase fails there is no Architect request and no Blueprint.
C1_PhasesInOrder ==
    /\ Len(pending) <= 1
    /\ \A i \in 1..Len(requests) :
        /\ requests[i].phase = (IF i <= Len(PhaseOrder) THEN PhaseOrder[i] ELSE "Refine")
        /\ i > 1 => IsAnswered(i - 1)
        /\ i \in {2, 3} => ResponseValid(Answer(i - 1), RequiredOf(PhaseOrder[i - 1]))
    /\ (/\ Len(requests) >= 1
        /\ IsAnswered(1)
        /\ ~ResponseValid(Answer(1), SpecRequired))
       => /\ Len(requests) = 1
          /\ blueprint = UndefV
          /\ settled.call = "generateBlueprint"
          /\ settled.how = "thrown"

\* The Build request is in flight, alone, after the three requests before it.
C1_Witness ==
    /\ pc = "Building"
    /\ Len(requests) = 4
    /\ Len(pending) = 1
    /\ Head(pending).phase = "Build"

\* C2: whenever the answer to a Quantize, Architect, Build or Refine request makes
\* the phase fail (a rejection, an unparseable text, a missing required field), the
\* call has thrown one error whose message starts with the fixed prefix of that
\* phase and goes on with the message of the failure; and whatever makes a
\* refineGame call fail, the error it throws starts with "Refinement Failed: ".
C2_PhaseQualifiedError ==
    /\ \A i \in 1..Len(requests) :
          (/\ i = Len(requests)
           /\ requests[i].call = Len(calls)
           /\ requests[i].phase # "Soundscape"
           /\ IsAnswered(i)
           /\ PhaseFails(requests[i].phase, Answer(i)))
          => /\ settled.how = "thrown"
             /\ settled.call = CallOf(requests[i].phase)
             /\ settled.err # <<>>
             /\ Head(settled.err) = PrefixOf(requests[i].phase)
             /\ Len(settled.err) >= 2
             /\ Answer(i).kind = "reject" => Tail(settled.err) = Answer(i).msg
    /\ (settled.call = "refineGame" /\ settled.how = "thrown") =>
          /\ settled.err # <<>>
          /\ Head(settled.err) = RefinePrefix

\* C3: each phase attempts its provider call exactly once: generateBlueprint issues
\* at most two requests (at most one Quantize and one Architect, and one Quantize
\* once it has settled), and every settled generateSoundscape, generatePrototype
\* and refineGame call has issued exactly one request.
C3_ExactlyOneRequestPerPhase ==
    \A c \in 1..Len(calls) :
        /\ calls[c] = "generateBlueprint" =>
            /\ Len(RequestsOfCall(c)) <= 2
            /\ Len(RequestsOfPhase(c, "Quantize")) <= 1
            /\ Len(RequestsOfPhase(c, "Architect")) <= 1
            /\ CallSettled(c) => Len(RequestsOfPhase(c, "Quantize")) = 1
        /\ calls[c] # "generateBlueprint" =>
            /\ Len(RequestsOfCall(c)) <= 1
            /\ CallSettled(c) => Len(RequestsOfCall(c)) = 1

\* C4: generateSoundscape never throws to its caller: once it has settled it has
\* returned a value.
C4_SoundscapeNeverThrows ==
    settled.call = "generateSoundscape" => settled.how = "returned"

\* The Soundscape request was answered by a rejection or an unparseable text.
SoundscapeFailed ==
    \E i \in 1..Len(requests) :
        requests[i].phase = "Soundscape" /\ IsAnswered(i) /\ ResponseUnusable(Answer(i))

IsFailureBundle(bundle) ==
    /\ bundle.t = "obj"
    /\ Get(bundle, K.soundEffects) = ArrJ(<<>>)
    /\ Get(bundle, K.description) = StrV(AudioFailedText)

\* C5: when the Soundscape provider call fails, generateSoundscape has returned, so
\* the pipeline stands at Build or beyond it, and every GeneratedGame that
\* generatePrototype returns for that bundle has audio.soundEffects empty and
\* audio.description "Audio generation failed.".
C5_SoundscapeFailureDegrades ==
    SoundscapeFailed =>
        /\ pc \in {"AudioReady", "Building", "Done", "Refining", "Failed"}
        /\ pc = "Failed" => settled.call = "generatePrototype"
        /\ IsFailureBundle(audio)
        /\ \A g \in 1..Len(heap) : refinedFrom[g] = 0 => IsFailureBundle(heap[g].audio)

\* After a failed Soundscape call generatePrototype has returned a game.
C5_Witness ==
    /\ SoundscapeFailed
    /\ pc = "Done"
    /\ settled.call = "generatePrototype"
    /\ settled.how = "returned"
    /\ IsFailureBundle(heap[settled.value].audio)

BuildAnswered == \E i \in 1..Len(requests) : requests[i].phase = "Build" /\ IsAnswered(i)
BuildAnswerValid ==
    \E i \in 1..Len(requests) :
        requests[i].phase = "Build" /\ IsAnswered(i) /\ ResponseValid(Answer(i), BuildRequired)

\* C6: generatePrototype returns a GeneratedGame, with a Manifest attached, exactly
\* when the Build answer parsed to an object holding both html and instructions; in
\* every other case it throws and there is no game and no Manifest.
C6_DoneOnlyOnValidArtifact ==
    /\ heap # <<>> <=> BuildAnswerValid
    /\ BuildAnswerValid =>
        /\ pc \in {"Done", "Refining"}
        /\ "manifest" \in DOMAIN heap[1]
        /\ refinedFrom[1] = 0
    /\ (BuildAnswered /\ ~BuildAnswerValid) =>
        /\ pc = "Failed"
        /\ settled.call = "generatePrototype"
        /\ settled.how = "thrown"
    /\ (settled.call = "generatePrototype" /\ settled.how = "returned") =>
        BuildAnswerValid /\ settled.value = 1
    /\ (settled.call = "generatePrototype" /\ settled.how = "thrown") => heap = <<>>

\* generatePrototype has returned a game from a fenced Build answer.
C6_Witness ==
    /\ settled.call = "generatePrototype"
    /\ settled.how = "returned"
    /\ heap[1].html = StrV(H2)

\* C7: the Manifest attached by generatePrototype has buildHash equal to the hash
\* of the html of the returned game, specHash equal to the hash of the serialized
\* Blueprint that was passed in, and the seed, platform and quality of the
\* preferences.
C7_ManifestOfPrototype ==
    \A g \in 1..Len(heap) :
        refinedFrom[g] = 0 =>
            /\ heap[g].manifest.buildHash = generateShortHash(TextOf(OrEmpty(heap[g].html)))
            /\ heap[g].manifest.specHash = generateShortHash(JSONStringify(blueprint))
            /\ heap[g].manifest.seed = prefs.seed
            /\ heap[g].manifest.platform = prefs.platform
            /\ heap[g].manifest.quality = prefs.quality

\* generatePrototype has returned a game with a non-empty artifact.
C7_Witness ==
    /\ settled.call = "generatePrototype"
    /\ settled.how = "returned"
    /\ heap[1].html = StrV(H1)
    /\ heap[1].manifest.buildHash = generateShortHash(H1)

\* C8: for every GeneratedGame returned by generatePrototype or by a successful
\* refineGame call, manifest.buildHash is the hash of that game's html.
C8_BuildHashOfCurrentHtml ==
    \A g \in 1..Len(heap) :
        heap[g].manifest.buildHash = generateShortHash(TextOf(OrEmpty(heap[g].html)))

\* C9: every game a successful refineGame call returns has a Manifest whose
\* parentHash is the buildHash of the Manifest of the game the call was given.
C9_ParentHashChain ==
    \A g \in 1..Len(heap) :
        refinedFrom[g] # 0 =>
            /\ "parentHash" \in DOMAIN heap[g].manifest
            /\ heap[g].manifest.parentHash = heap[refinedFrom[g]].manifest.buildHash

\* C10: refineGame never modifies the currentGame it is given: while the call runs
\* and after it has returned or thrown, the object it was given has the html,
\* instructions and manifest it had when the call started, and a call that returns
\* returns another object.
C10_CurrentGameUnmodified ==
    argGame # 0 =>
        /\ argGame \in 1..Len(heap)
        /\ <<heap[argGame]>> = argSnapshot
        /\ (settled.call = "refineGame" /\ settled.how = "returned") =>
            /\ settled.value \in 1..Len(heap)
            /\ settled.value # argGame
            /\ refinedFrom[settled.value] = argGame

\* A refinement has returned a game whose html differs from the one it was given.
C10_Witness ==
    /\ settled.call = "refineGame"
    /\ settled.how = "returned"
    /\ heap[settled.value].html # heap[argGame].html

(***************************************************************************)
(* Properties of the refinement engine.  They compare the game a settled   *)
(* refineGame call returned with the game it was given (as it was when the *)
(* call started) and with the provider's answer as the log holds it.       *)
(***************************************************************************)
\* The last call that settled is a refineGame call that got an answer to its request.
RefineSettled ==
    /\ settled.call = "refineGame"
    /\ settled.how # "none"
    /\ requests # <<>>
    /\ requests[Len(requests)].call = Len(calls)
RefineReturned == RefineSettled /\ settled.how = "returned"
\* The answer that call received, and the data it parses to.
RefineAnswer == Answer(Len(requests))
RefineParses ==
    /\ RefineAnswer.kind = "resolve"
    /\ parseAndSanitize(TextOrDefault(RefineAnswer.text)).ok
    /\ parseAndSanitize(TextOrDefault(RefineAnswer.text)).val.t = "obj"
RefineResult == parseAndSanitize(TextOrDefault(RefineAnswer.text)).val
\* The game the call was given, as it was when the call started, and its artifact.
GameBefore == argSnapshot[1]
HtmlBefore == OrEmpty(GameBefore.html).s
\* The game the call returned.
GameAfter == heap[settled.value]

\* The response carries field key with a value that counts (of the strings, a
\* non-empty one).
Supplies(result, key) == Truthy(Get(result, key))
\* The value is an edit as refinementSchema describes it: search and replace texts.
IsEdit(e) == e.t = "obj" /\ Get(e, K.search).t = "str" /\ Get(e, K.replace).t = "str"
\* The response lists edits: an array of search and replace texts.
ListsEdits(result) ==
    /\ Get(result, K.edits).t = "arr"
    /\ \A k \in 1..Len(Get(result, K.edits).a) : IsEdit(Get(result, K.edits).a[k])
IsRewritePlan(result) ==
    Get(result, K.editMode) = StrV(RewriteMode) /\ Supplies(result, K.fullCode)
IsPatchPlan(result) == Get(result, K.editMode) = StrV(PatchMode) /\ ListsEdits(result)
\* The edits of the response, each with its search text and its replace text.
EditsOf(result) ==
    [k \in 1..Len(Get(result, K.edits).a) |->
        [search |-> Get(Get(result, K.edits).a[k], K.search).s,
         replace |-> Get(Get(result, K.edits).a[k], K.replace).s]]

\* s with the first occurrence of sub replaced by the characters of rep as they are.
LiteralReplaceFirst(s, sub, rep) ==
    SubSeq(s, 1, FirstIndexOf(s, sub) - 1) \o rep
        \o SubSeq(s, FirstIndexOf(s, sub) + Len(sub), Len(s))

RECURSIVE LiteralPatch(_, _)
\* The edits applied in list order: an edit whose search text is a substring of the
\* artifact at the moment it is reached replaces its first occurrence, any other
\* edit leaves the artifact as it is.
LiteralPatch(art, edits) ==
    IF edits = <<>> THEN art
    ELSE LiteralPatch(IF Includes(art, Head(edits).search)
                      THEN LiteralReplaceFirst(art, Head(edits).search, Head(edits).replace)
                      ELSE art,
                      Tail(edits))

\* C11: in patch mode, for any ordered list of edits, refineGame returns a game
\* (it does not throw) whose artifact is the result of applying, in list order,
\* exactly the edits whose search text is an exact substring of the artifact at the
\* moment the edit is reached; every other edit leaves the text unchanged.
C11_PatchAppliesLocatedEdits ==
    (RefineSettled /\ RefineParses /\ IsPatchPlan(RefineResult)) =>
        /\ settled.how = "returned"
        /\ GameAfter.html = StrV(LiteralPatch(HtmlBefore, EditsOf(RefineResult)))

\* The number of places where sub occurs in s.
Occurrences(s, sub) == Cardinality({i \in 1..(Len(s) + 1) : LitAt(s, i, sub)})

\* C12: in patch mode with a single edit whose search text occurs exactly once in
\* the current artifact, the new artifact is the original with that occurrence
\* replaced by the replace text taken character for character and every other
\* character unchanged, and the instructions are those of the game given when the
\* response supplies none.
C12_SingleEditReplacesLiterally ==
    (/\ RefineSettled
     /\ RefineParses
     /\ IsPatchPlan(RefineResult)
     /\ Len(EditsOf(RefineResult)) = 1
     /\ EditsOf(RefineResult)[1].search # <<>>
     /\ Occurrences(HtmlBefore, EditsOf(RefineResult)[1].search) = 1)
    => /\ settled.how = "returned"
       /\ GameAfter.html =
            StrV(LiteralReplaceFirst(HtmlBefore, EditsOf(RefineResult)[1].search,
                                     EditsOf(RefineResult)[1].replace))
       /\ ~Has(RefineResult, K.instructions) => GameAfter.instructions = GameBefore.instructions

\* The response takes the patch path with a list of edits.
TakesPatchPath(result) == ~IsRewritePlan(result) /\ ListsEdits(result)

RECURSIVE ArtifactAfter(_, _, _)
\* The full artifact as the first k edits leave it: edit k is looked for in the
\* artifact as edits 1..k-1 left it.
ArtifactAfter(art, edits, k) ==
    IF k = 0 THEN art
    ELSE IF /\ edits[k].search # <<>>
            /\ Includes(ArtifactAfter(art, edits, k - 1), edits[k].search)
    THEN ReplaceFirst(ArtifactAfter(art, edits, k - 1), edits[k].search, edits[k].replace)
    ELSE ArtifactAfter(art, edits, k - 1)

\* C13: patch edits are located in the full uncompressed artifact as the edits
\* applied before them left it, never in the compressed context sent to the
\* provider: the artifact returned is the chain of the edits over the uncompressed
\* html of the game given, so a later edit matches text an earlier edit inserted,
\* and an edit whose search text is a placeholder of the compressed form matches
\* nothing.
C13_EditsLocatedInFullArtifact ==
    (RefineReturned /\ RefineParses /\ TakesPatchPath(RefineResult)) =>
        /\ GameAfter.html =
             StrV(ArtifactAfter(HtmlBefore, EditsOf(RefineResult), Len(EditsOf(RefineResult))))
        /\ \A k \in 1..Len(EditsOf(RefineResult)) :
             (/\ EditsOf(RefineResult)[k].search \in {Base64Placeholder, GeometryPlaceholder}
              /\ Includes(compressCodeForContext(HtmlBefore), EditsOf(RefineResult)[k].search)
              /\ \A j \in 0..(k - 1) :
                   ~Includes(ArtifactAfter(HtmlBefore, EditsOf(RefineResult), j),
                             EditsOf(RefineResult)[k].search))
             => ~Includes(GameAfter.html.s, EditsOf(RefineResult)[k].replace)
                \/ Includes(HtmlBefore, EditsOf(RefineResult)[k].replace)

\* An edit matched the text an earlier edit had inserted, and the edit aimed at the
\* placeholder of the embedded data changed nothing: the data URI is still there.
C13_Witness ==
    /\ RefineReturned
    /\ HtmlBefore = H4
    /\ RefineParses
    /\ Len(EditsOf(RefineResult)) = 4
    /\ Includes(compressCodeForContext(HtmlBefore), Base64Placeholder)
    /\ GameAfter.html = StrV(<<"a", " ", " ", "b", "w">> \o DataUri)

\* C14: when editMode is rewrite and a replacement body (fullCode) is present, the
\* artifact of the returned game is exactly that body, whatever the previous
\* artifact was and whatever edits the same response lists.
C14_RewriteReplacesArtifact ==
    (RefineSettled /\ RefineParses /\ IsRewritePlan(RefineResult)) =>
        /\ settled.how = "returned"
        /\ GameAfter.html = Get(RefineResult, K.fullCode)

\* A rewrite whose response also lists an edit that matches the new body.
C14_Witness ==
    /\ RefineReturned
    /\ RefineParses
    /\ IsRewritePlan(RefineResult)
    /\ ListsEdits(RefineResult)
    /\ Includes(Get(RefineResult, K.fullCode).s, EditsOf(RefineResult)[1].search)
    /\ HtmlBefore # Get(RefineResult, K.fullCode).s
    /\ GameAfter.html = StrV(H3)

\* No edit of the response is found in the artifact of the game given.
NoEditMatches(result) ==
    \/ ~ListsEdits(result)
    \/ \A k \in 1..Len(EditsOf(result)) :
         \/ EditsOf(result)[k].search = <<>>
         \/ ~Includes(HtmlBefore, EditsOf(result)[k].search)

\* Text the response itself carries: a replace text or the replacement body.
ResponseCarries(result, text) ==
    \/ Get(result, K.fullCode).t = "str" /\ Includes(Get(result, K.fullCode).s, text)
    \/ /\ ListsEdits(result)
       /\ \E k \in 1..Len(EditsOf(result)) : Includes(EditsOf(result)[k].replace, text)

\* C15 as stated: the compressed text is never the artifact of record: a
\* placeholder of the compressed form appears in the html refineGame returns only
\* if the html of the game given or the response itself contains it, and when no
\* edit matches (and there is no rewrite) the returned html is identical to
\* currentGame.html, data URIs and long numeric arrays included.
C15_NoMatchReturnsHtmlOfRecord ==
    (RefineReturned /\ RefineParses) =>
        /\ \A ph \in {Base64Placeholder, GeometryPlaceholder} :
             Includes(GameAfter.html.s, ph)
                => Includes(HtmlBefore, ph) \/ ResponseCarries(RefineResult, ph)
        /\ (~IsRewritePlan(RefineResult) /\ NoEditMatches(RefineResult))
             => GameAfter.html = GameBefore.html

\* C15, amended: the compressed text is never the artifact of record: a placeholder
\* of the compressed form appears in the html refineGame returns only if the html
\* of the game given or the response itself contains it, and when no edit matches
\* (and there is no rewrite) the returned html is currentGame.html, character for
\* character, data URIs and long numeric arrays included, when that is a string,
\* and the empty string when currentGame.html is absent or null.
C15_CompressedNeverOfRecord ==
    (RefineReturned /\ RefineParses) =>
        /\ \A ph \in {Base64Placeholder, GeometryPlaceholder} :
             Includes(GameAfter.html.s, ph)
                => Includes(HtmlBefore, ph) \/ ResponseCarries(RefineResult, ph)
        /\ (~IsRewritePlan(RefineResult) /\ NoEditMatches(RefineResult))
             => GameAfter.html = (IF GameBefore.html.t = "str" THEN GameBefore.html
                                  ELSE StrV(<<>>))

\* No edit matched an artifact that the compression shortens: it came back whole.
C15_Witness ==
    /\ RefineReturned
    /\ RefineParses
    /\ IsPatchPlan(RefineResult)
    /\ Len(EditsOf(RefineResult)) = 2
    /\ NoEditMatches(RefineResult)
    /\ compressCodeForContext(HtmlBefore) # HtmlBefore
    /\ GameBefore.html.t = "str"
    /\ GameAfter.html = GameBefore.html

\* C16: in patch and in rewrite mode alike, the returned game's instructions are the
\* instructions of the refinement response when it supplies them (a non-empty
\* text), and the instructions of the game given otherwise.
C16_InstructionsUpdatedOrKept ==
    (RefineReturned /\ RefineParses) =>
        GameAfter.instructions =
            (IF Supplies(RefineResult, K.instructions)
             THEN Get(RefineResult, K.instructions)
             ELSE GameBefore.instructions)

\* A patch whose response supplies new instructions, after a refinement that kept them.
C16_Witness ==
    /\ RefineReturned
    /\ RefineParses
    /\ IsPatchPlan(RefineResult)
    /\ Supplies(RefineResult, K.instructions)
    /\ GameAfter.instructions = I2
    /\ GameBefore.instructions = I1
    /\ refinedFrom[argGame] # 0

\* C17: a refinement response that parses as structured data but omits the required
\* editMode field is a validation failure: refineGame throws the error prefixed
\* "Refinement Failed: " and returns no game.
C17_MissingEditModeFails ==
    (RefineSettled /\ RefineParses /\ ~Has(RefineResult, K.editMode)) =>
        /\ settled.how = "thrown"
        /\ Head(settled.err) = RefinePrefix

(***************************************************************************)
(* Properties of the provider singleton and of the status callback.        *)
(***************************************************************************)
\* The first request of the call that issued request i: it is issued in the same
\* step in which the call starts.
FirstOfCall(i) ==
    CHOOSE j \in 1..i :
        /\ requests[j].call = requests[i].call
        /\ \A k \in 1..(j - 1) : requests[k].call # requests[i].call
\* The provider the singleton held when the call that issued request i started.
ProviderAtStart(i) == requests[FirstOfCall(i)].current

\* C18: when setAIProvider replaces the provider while generateBlueprint or
\* generatePrototype is in flight, every request of that call (Quantize and
\* Architect, or Build) goes to the provider that was current when the call started,
\* a call started after the replacement uses the new provider, the singleton holds
\* one of the providers that were set, and no step of a call changes the singleton.
C18_InFlightCallKeepsItsProvider ==
    /\ [](/\ currentProvider \in Providers
          /\ \A i \in 1..Len(requests) :
               requests[i].phase \in {"Quantize", "Architect", "Build"}
                  => requests[i].provider = ProviderAtStart(i))
    /\ [][currentProvider' # currentProvider
            => UNCHANGED <<pc, ai, onStatus, pending, requests, specData, blueprint, audio,
                           heap, refinedFrom, argGame, argSnapshot, settled, calls, prefs>>]_vars

\* generateBlueprint has returned although the provider was replaced while its
\* Quantize request was in flight: the Architect request went to the old provider.
C18_Witness ==
    /\ pc = "BlueprintReady"
    /\ Len(requests) = 2
    /\ requests[1].current = DefaultProvider
    /\ requests[2].current = "CustomProvider"
    /\ requests[2].provider = DefaultProvider
    /\ currentProvider = "CustomProvider"

\* C19: once setAIProvider(p) has returned, every generateBlueprint,
\* generateSoundscape, generatePrototype and refineGame call started afterwards
\* issues its requests to p and to no other provider.
C19_EveryCallUsesTheSetProvider ==
    \A i \in 1..Len(requests) :
        ProviderAtStart(i) # DefaultProvider => requests[i].provider = ProviderAtStart(i)

\* C20: the status callback is advisory: whatever it does, a generateBlueprint,
\* generateSoundscape or generatePrototype call issues the requests and has the
\* outcome it has without a callback, so such a call throws only when the answer to
\* its last request makes a fatal phase fail.
C20_StatusCallbackAdvisory ==
    (settled.how = "thrown" /\ settled.call # "refineGame") =>
        /\ RequestsOfCall(Len(calls)) # <<>>
        /\ requests[Len(requests)].call = Len(calls)
        /\ IsAnswered(Len(requests))
        /\ requests[Len(requests)].phase # "Soundscape"
        /\ PhaseFails(requests[Len(requests)].phase, Answer(Len(requests)))

(***************************************************************************)
(* Properties of the response sanitizer.                                   *)
(***************************************************************************)
Sanitized == output.fn = "parseAndSanitize"

\* C22: parseAndSanitize tries (1) the strict parse of the whole text, (2) the
\* strict parse of the substring from the first '{' to the last '}', (3) the strict
\* parse of the text with the fence markers removed and trimmed, in this order; it
\* returns the value of the first strategy that succeeds, from that strategy's
\* return statement, and it throws only when all three have failed.
C22_FirstSuccessfulStrategyWins ==
    Sanitized =>
        IF JSONParse(RawText(input)).ok
        THEN /\ output.ret.ok
             /\ output.ret.via = 1
             /\ output.ret.val = JSONParse(RawText(input)).val
        ELSE IF BraceCandidate(RawText(input)).ok
        THEN /\ output.ret.ok
             /\ output.ret.via = 2
             /\ output.ret.val = BraceCandidate(RawText(input)).val
        ELSE IF JSONParse(Trim(RemoveFences(RawText(input)))).ok
        THEN /\ output.ret.ok
             /\ output.ret.via = 3
             /\ output.ret.val = JSONParse(Trim(RemoveFences(RawText(input)))).val
        ELSE /\ ~output.ret.ok
             /\ output.ret.err = <<InvalidStructureMsg>>

\* A fenced array of one object: the brace candidate succeeds, and the cleanup,
\* which would have given another value, is not what was returned.
C22_Witness ==
    /\ Sanitized
    /\ output.ret.via = 2
    /\ JSONParse(Trim(RemoveFences(RawText(input)))).ok
    /\ JSONParse(Trim(RemoveFences(RawText(input)))).val # output.ret.val

\* The raw text wraps its body: a fence marker or prose stands before or after it.
Wrapped(in) ==
    \E i \in 1..Len(in.pre \o in.suf) :
        (in.pre \o in.suf)[i] \notin WsChars

\* C23: for every raw text that wraps a valid payload in a fenced block or in
\* leading or trailing prose, parseAndSanitize returns the value that parsing the
\* payload alone gives: for every kind of payload, arrays of objects included, and
\* for prose that contains brace characters.
C23_WrappedPayloadRecovered ==
    (Sanitized /\ input.body \in Payloads /\ Wrapped(input)) =>
        /\ output.ret.ok
        /\ output.ret.val = JSONParse(input.body).val

\* C24: for every raw text that is itself a valid payload, parseAndSanitize returns
\* exactly the value of the direct parse, from the first return statement: no
\* extraction and no cleanup takes part.
C24_ValidTextParsedDirectly ==
    (Sanitized /\ JSONParse(RawText(input)).ok) =>
        /\ output.ret.ok
        /\ output.ret.via = 1
        /\ output.ret.val = JSONParse(RawText(input)).val

\* A bare array of one object: the brace candidate would have given the object.
C24_Witness ==
    /\ Sanitized
    /\ JSONParse(RawText(input)).ok
    /\ BraceCandidate(RawText(input)).ok
    /\ BraceCandidate(RawText(input)).val # JSONParse(RawText(input)).val
    /\ output.ret.val = JSONParse(RawText(input)).val

\* No '{' stands before a later '}'.
NoBracePair(text) ==
    ~ \E i, j \in 1..Len(text) : i < j /\ text[i] = "{" /\ text[j] = "}"

\* No contiguous part of the text parses.
NoParseablePart(text) ==
    \A i, j \in 1..Len(text) : ~JSONParse(SubSeq(text, i, j)).ok

\* C25 as stated: for every raw text with no balanced top-level braces and no
\* parseable content, parseAndSanitize fails with the message "The AI generated an
\* invalid response structure. Please try again." and returns no value.
C25_NoBracesNoContentFails ==
    (/\ Sanitized
     /\ NoBracePair(RawText(input))
     /\ NoParseablePart(RawText(input))) =>
        /\ ~output.ret.ok
        /\ output.ret.err = <<InvalidStructureMsg>>
        /\ output.ret.val = NullV

\* C25, amended: for every raw text with no balanced top-level braces and no
\* parseable content, neither in the text nor in the text with its fence markers
\* removed, parseAndSanitize fails with the message "The AI generated an invalid
\* response structure. Please try again." and returns no value.
C25_UnparseableTextFails ==
    (/\ Sanitized
     /\ NoBracePair(RawText(input))
     /\ NoParseablePart(RawText(input))
     /\ NoParseablePart(RemoveFences(RawText(input)))) =>
        /\ ~output.ret.ok
        /\ output.ret.err = <<InvalidStructureMsg>>
        /\ output.ret.val = NullV

\* A fenced text with prose and a lone opening brace, thrown on.
C25_Witness ==
    /\ Sanitized
    /\ NoBracePair(RawText(input))
    /\ NoParseablePart(RawText(input))
    /\ NoParseablePart(RemoveFences(RawText(input)))
    /\ \E i \in 1..Len(RawText(input)) : RawText(input)[i] = "{"
    /\ RemoveFences(RawText(input)) # RawText(input)
    /\ ~output.ret.ok

(***************************************************************************)
(* Properties of the structure validator.                                  *)
(***************************************************************************)
Validated == output.fn = "validateStructure"

\* The value is an object of the language: a record or an array, not null and no
\* primitive.
IsObjectValue(data) == data.t \in {"obj", "arr"}

\* The value omits the key: it has no such property of its own (a field of an
\* object; an element or the length of an array).
Omits(data, key) ==
    /\ ~HasOwn(data, key)
    /\ ~(data.t = "arr" /\ (key = K.length \/ IsIndexOf(key, data.a)))

\* The required keys the value omits, in the order of requiredKeys.
OmittedKeys(in) == SelectSeq(in.requiredKeys, LAMBDA k : Omits(in.data, k))

RECURSIVE Listed(_)
\* The keys one after another, ", " between one and the next.
Listed(keys) ==
    IF keys = <<>> THEN <<>>
    ELSE IF Len(keys) = 1 THEN keys[1]
    ELSE keys[1] \o <<",", " ">> \o Listed(Tail(keys))

\* C26: validateStructure fails exactly when the value is not an object or omits
\* at least one required key; in the latter case the message is the context,
\* ": Missing required fields: " and every omitted required key, no present one,
\* in the order of requiredKeys, separated by ", ".
C26_FailsExactlyOnMissingKeys ==
    Validated =>
        /\ ~output.ret.ok <=>
              \/ ~IsObjectValue(input.data)
              \/ \E i \in 1..Len(input.requiredKeys) : Omits(input.data, input.requiredKeys[i])
        /\ (IsObjectValue(input.data) /\ OmittedKeys(input) # <<>>) =>
              /\ Len(output.ret.err) >= 2
              /\ output.ret.err[1] = input.context
              /\ output.ret.err[2] = ": Missing required fields: "
              /\ SubSeq(output.ret.err, 3, Len(output.ret.err)) = Listed(OmittedKeys(input))

\* C27: validateStructure is a presence check only: for every object that contains
\* all the required keys it succeeds and returns that same value unmodified, whatever
\* the keys hold (null, a value of another kind than the schema names).
C27_PresenceCheckOnly ==
    (/\ Validated
     /\ IsObjectValue(input.data)
     /\ \A i \in 1..Len(input.requiredKeys) : Has(input.data, input.requiredKeys[i])) =>
        /\ output.ret.ok
        /\ output.ret.val = input.data

\* An object whose required keys hold null and an array, returned as it is.
C27_Witness ==
    /\ Validated
    /\ input.data.t = "obj"
    /\ input.requiredKeys = <<K.a, K.b>>
    /\ Get(input.data, K.a) = NullV
    /\ Get(input.data, K.b) = ArrJ(<<>>)
    /\ output.ret.ok
    /\ output.ret.val = input.data

(***************************************************************************)
(* Properties of the context compressor.                                   *)
(***************************************************************************)
Compressed == output.fn = "compressCodeForContext"

\* The text has a data URI or a long numeric array somewhere.
HasDataUri(s) == \E i \in 1..Len(s) : DataUriEnd(s, i) # 0
HasNumericArray(s) == \E i \in 1..Len(s) : NumericArrayEnd(s, i) # 0

\* C28: compressCodeForContext is idempotent: compressing a compressed text gives
\* the same text, neither replacement rule matches a placeholder or anything a
\* replacement has produced.
C28_CompressIdempotent ==
    Compressed =>
        /\ compressCodeForContext(output.ret) = output.ret
        /\ ~HasDataUri(output.ret)
        /\ ~HasNumericArray(output.ret)

\* A text with two data URIs and a numeric array has been compressed.
C28_Witness ==
    /\ Compressed
    /\ Len(input.segs) = 3
    /\ \E i, j \in 1..3 : i # j /\ input.segs[i] = DataUri /\ input.segs[j] = DataUri
    /\ \E i \in 1..3 : input.segs[i] = NumericArray
    /\ output.ret # Flatten(input.segs)

\* The entries of a segment that is a bracketed literal of comma-separated numbers
\* (0 for any other segment).
EntriesOfLiteral(seg) ==
    IF /\ Len(seg) >= 3
       /\ seg[1] = "["
       /\ seg[Len(seg)] = "]"
       /\ \A i \in 2..(Len(seg) - 1) : seg[i] \in Digits \cup WsChars \cup {",", "-", "."}
    THEN Cardinality({i \in 1..Len(seg) : seg[i] = ","}) + 1
    ELSE 0

\* The segment at k is an array of 15 entries, the only array of the text, and
\* the text has no data URI.
OneArray15At(in, k) ==
    /\ k \in 1..Len(in.segs)
    /\ EntriesOfLiteral(in.segs[k]) = 15
    /\ \A i \in 1..Len(in.segs) :
          i # k => EntriesOfLiteral(in.segs[i]) = 0 /\ in.segs[i] # DataUri
    /\ ~HasDataUri(Flatten(in.segs))

\* C29: on a text with one numeric array of 15 entries and no data URI, the result
\* is that text with the whole array, brackets included, replaced by exactly one
\* placeholder, every character outside the array being the same.
C29_Array15ReplacedAlone ==
    Compressed =>
        \A k \in 1..Len(input.segs) :
            OneArray15At(input, k) =>
                output.ret = Flatten(SubSeq(input.segs, 1, k - 1))
                             \o GeometryPlaceholder
                             \o Flatten(SubSeq(input.segs, k + 1, Len(input.segs)))

(***************************************************************************)
(* Properties of the Build request.                                        *)
(***************************************************************************)
\* The lines of a prompt between two of its headers.
Between(payload, from, to) ==
    SubSeq(payload,
           (CHOOSE i \in 1..Len(payload) : payload[i] = from) + 1,
           (CHOOSE i \in 1..Len(payload) : payload[i] = to) - 1)

\* The engine block of a Build request.
EngineBlockOf(r) == Between(r.payload, EngineHeader, SeedHeader)

\* C30: the engine-specific instructions of a Build request are those registered for
\* prefs.gameEngine when that engine is a key of the table, and the baseline
\* Three.js (Standard) instructions for every other engine identifier; the block
\* is never empty.
C30_EngineBlockRegisteredOrBaseline ==
    \A i \in 1..Len(requests) :
        requests[i].phase = "Build" =>
            /\ EngineBlockOf(requests[i]) =
                  (IF prefs.gameEngine \in DOMAIN ENGINE_SPECS
                   THEN ENGINE_SPECS[prefs.gameEngine]
                   ELSE ENGINE_SPECS[ThreeJS])
            /\ EngineBlockOf(requests[i]) # <<>>

(***************************************************************************)
(* Termination.                                                            *)
(***************************************************************************)
\* A call is waiting for the provider.
InFlight == pc \in {"Quantizing", "Architecting", "Sounding", "Building", "Refining"}

\* C21: when every provider call eventually resolves or rejects, every call of
\* generateBlueprint, generateSoundscape, generatePrototype and refineGame
\* eventually terminates, by a return or by a throw, with no request left in
\* flight; the pipeline does not remain in Quantizing, Architecting, Sounding or
\* Building, and the Build phase ends in Done or in Failed.
C21_EveryCallTerminates ==
    /\ InFlight ~> (~InFlight /\ pending = <<>> /\ settled.how \in {"returned", "thrown"})
    /\ \A phase \in {"Quantizing", "Architecting", "Sounding", "Building"} :
          (pc = phase) ~> (pc # phase)
    /\ (pc = "Building") ~> (pc \in {"Done", "Failed"})

\* The pipeline has gone through its four requests and the Build call has thrown.
C21_Witness ==
    /\ pc = "Failed"
    /\ Len(requests) = 4
    /\ IsAnswered(4)
    /\ pending = <<>>
    /\ settled.call = "generatePrototype"
    /\ settled.how = "thrown"

\* The segments with every literal of eleven or more numbers replaced.
LongLiteralsHidden(segs) ==
    [k \in 1..Len(segs) |->
        IF EntriesOfLiteral(segs[k]) >= MinGroups + 1 THEN GeometryPlaceholder ELSE segs[k]]

\* C31: the numeric-array replacement has its threshold at more than ten entries: in
\* a text without data URIs a bracketed literal of ten or fewer comma-separated
\* numbers is left as it is and one of eleven or more is replaced by the
\* placeholder.
C31_ThresholdAboveTenEntries ==
    (Compressed /\ ~HasDataUri(Flatten(input.segs))) =>
        output.ret = Flatten(LongLiteralsHidden(input.segs))

(***************************************************************************)
(* Further properties of the refinement engine.                            *)
(***************************************************************************)
\* The text before the first occurrence of sub in s, and the text after it.
BeforeFirst(s, sub) == SubSeq(s, 1, FirstIndexOf(s, sub) - 1)
AfterFirst(s, sub) == SubSeq(s, FirstIndexOf(s, sub) + Len(sub), Len(s))

\* s ends with the text tail.
EndsWith(s, tail) ==
    /\ Len(s) >= Len(tail)
    /\ SubSeq(s, Len(s) - Len(tail) + 1, Len(s)) = tail

\* The single edit of a response of one edit.
OnlyEdit == EditsOf(RefineResult)[1]

\* C32: a matching patch edit replaces the first occurrence of its search text
\* only: when the search text occurs again after its first occurrence, the artifact
\* returned begins with the text before the first occurrence and ends with the
\* whole text after it, later occurrences included, the two not overlapping.
C32_OnlyFirstOccurrenceReplaced ==
    (/\ RefineSettled
     /\ RefineParses
     /\ TakesPatchPath(RefineResult)
     /\ Len(EditsOf(RefineResult)) = 1
     /\ OnlyEdit.search # <<>>
     /\ Includes(HtmlBefore, OnlyEdit.search)
     /\ Includes(AfterFirst(HtmlBefore, OnlyEdit.search), OnlyEdit.search))
    => /\ settled.how = "returned"
       /\ GameAfter.html.t = "str"
       /\ SubSeq(GameAfter.html.s, 1, Len(BeforeFirst(HtmlBefore, OnlyEdit.search)))
             = BeforeFirst(HtmlBefore, OnlyEdit.search)
       /\ EndsWith(GameAfter.html.s, AfterFirst(HtmlBefore, OnlyEdit.search))
       /\ Len(GameAfter.html.s) >= Len(HtmlBefore) - Len(OnlyEdit.search)

\* "abab" with the edit b -> c: the second b is still there.
C32_Witness ==
    /\ RefineReturned
    /\ RefineParses
    /\ HtmlBefore = H1
    /\ Len(EditsOf(RefineResult)) = 1
    /\ OnlyEdit = [search |-> <<"b">>, replace |-> <<"c">>]
    /\ GameAfter.html = StrV(<<"a", "c", "a", "b">>)

(***************************************************************************)
(* Further properties of the pipeline.                                     *)
(***************************************************************************)
\* What a response text parses to.
ParsedOf(out) == parseAndSanitize(TextOrDefault(out.text)).val

\* generateBlueprint has returned a Blueprint: the two responses it was made of.
BlueprintReturned == blueprint # UndefV /\ Len(requests) >= 2 /\ IsAnswered(2)
SpecResponse == ParsedOf(Answer(1))
ArchResponse == ParsedOf(Answer(2))

\* The keys of an object.
KeysOf(data) == {data.m[i].k : i \in 1..Len(data.m)}

\* C33: the Blueprint generateBlueprint returns has every field of the spec
\* response and every field of the architecture response and no other; a key both
\* responses supply holds the architecture response's value, any other key of the
\* spec response holds the validated spec value.
C33_BlueprintMergesArchitectureLast ==
    BlueprintReturned =>
        /\ blueprint.t = "obj"
        /\ KeysOf(blueprint) = KeysOf(SpecResponse) \cup KeysOf(ArchResponse)
        /\ \A k \in KeysOf(ArchResponse) : Get(blueprint, k) = Get(ArchResponse, k)
        /\ \A k \in KeysOf(SpecResponse) \ KeysOf(ArchResponse) :
              Get(blueprint, k) = Get(SpecResponse, k)
        /\ specData = SpecResponse

\* Both responses carry a title: the Blueprint has the architecture response's.
C33_Witness ==
    /\ BlueprintReturned
    /\ Get(SpecResponse, K.title) = Neon
    /\ Get(ArchResponse, K.title) = Renamed
    /\ Get(blueprint, K.title) = Renamed
    /\ Get(blueprint, K.summary) = Get(SpecResponse, K.summary)

\* C34: generateBlueprint gates on the presence of title, summary and coreMechanics
\* in the spec response and of architecture and techStack in the architecture
\* response, and on nothing else: once both responses are in, a Blueprint has been
\* returned exactly when those five keys are present, also when
\* visualRequirements, recommendedEngine, language or prerequisites are absent.
C34_FiveKeysGateTheBlueprint ==
    (Len(requests) >= 2 /\ IsAnswered(2)) =>
        (blueprint # UndefV <=>
            /\ ResponseValid(Answer(1), <<K.title, K.summary, K.coreMechanics>>)
            /\ ResponseValid(Answer(2), <<K.architecture, K.techStack>>))

\* A Blueprint made of a spec response without visualRequirements and an
\* architecture response without recommendedEngine, language and prerequisites.
C34_Witness ==
    /\ BlueprintReturned
    /\ ~Has(SpecResponse, K.visualRequirements)
    /\ ~Has(ArchResponse, K.recommendedEngine)
    /\ ~Has(ArchResponse, K.language)
    /\ ~Has(ArchResponse, K.prerequisites)
    /\ ~Has(blueprint, K.visualRequirements)
    /\ Has(blueprint, K.techStack)

\* The Soundscape request has been answered, and its answer.
SoundscapeAnswered == Len(requests) >= 3 /\ requests[3].phase = "Soundscape" /\ IsAnswered(3)
SoundscapeAnswer == Answer(3)

\* C35: generateSoundscape returns the fixed fallback bundle when the provider call
\* rejects or its text cannot be parsed, and in every other case the value the text
\* parses to (the empty object for an empty text), with no check of required
\* fields: the bundle returned may lack soundEffects, backgroundMusic and
\* description.
C35_SoundscapeReturnsParsedOrFallback ==
    SoundscapeAnswered =>
        IF \/ SoundscapeAnswer.kind = "reject"
           \/ ~parseAndSanitize(TextOrDefault(SoundscapeAnswer.text)).ok
        THEN /\ IsFailureBundle(audio)
             /\ Get(audio, K.backgroundMusic) = StrV(NoMusicText)
             /\ Len(audio.m) = 3
        ELSE audio = ParsedOf(SoundscapeAnswer)

\* An empty response text: the bundle returned is the empty object.
C35_Witness ==
    /\ SoundscapeAnswered
    /\ SoundscapeAnswer.kind = "resolve"
    /\ SoundscapeAnswer.text = <<>>
    /\ audio = ObjJ(<<>>)
    /\ ~Has(audio, K.soundEffects)
    /\ ~Has(audio, K.backgroundMusic)
    /\ ~Has(audio, K.description)
    /\ pc = "AudioReady"

\* The response asks for a rewrite and carries no replacement body (none, or an
\* empty one).
RewriteWithoutBody(result) ==
    Get(result, K.editMode) = StrV(RewriteMode) /\ ~Supplies(result, K.fullCode)

\* The artifact a patch leaves: the edits of the response, if it lists any, applied
\* in order to the text it starts from.
PatchedFrom(text, result) ==
    IF ListsEdits(result)
    THEN ArtifactAfter(text, EditsOf(result), Len(EditsOf(result)))
    ELSE text

\* C36 as stated: a refinement response with editMode rewrite and no (or an empty)
\* fullCode is handled as a patch: the call returns, its edits, if any, are applied,
\* and when it has none the html of the game returned is identical to
\* currentGame.html.
C36_RewriteWithoutBodyKeepsHtml ==
    (RefineSettled /\ RefineParses /\ RewriteWithoutBody(RefineResult)) =>
        /\ settled.how = "returned"
        /\ GameAfter.html.t = "str"
        /\ GameAfter.html.s = PatchedFrom(HtmlBefore, RefineResult)
        /\ ~ListsEdits(RefineResult) => GameAfter.html = GameBefore.html

\* C36, amended: a refinement response with editMode rewrite and no (or an empty)
\* fullCode is handled as a patch: the call returns a game whose html is a string,
\* the edits of the response, if any, applied to currentGame.html taken as the empty
\* string when the game has none; with no edits the html is currentGame.html when
\* that is a string and the empty string otherwise.
C36_RewriteWithoutBodyIsPatch ==
    (RefineSettled /\ RefineParses /\ RewriteWithoutBody(RefineResult)) =>
        /\ settled.how = "returned"
        /\ GameAfter.html.t = "str"
        /\ GameAfter.html.s = PatchedFrom(HtmlBefore, RefineResult)
        /\ ~ListsEdits(RefineResult) =>
              GameAfter.html = (IF GameBefore.html.t = "str" THEN GameBefore.html
                                ELSE StrV(<<>>))

\* A rewrite with an empty body and no edits, for "abab": the game returned has
\* "abab".
C36_Witness ==
    /\ RefineReturned
    /\ RefineParses
    /\ RewriteWithoutBody(RefineResult)
    /\ Has(RefineResult, K.fullCode)
    /\ ~ListsEdits(RefineResult)
    /\ HtmlBefore = H1
    /\ GameAfter.html = StrV(H1)

\* The audio part of a Build request: what follows the audio header.
AudioPartOf(r) ==
    SubSeq(r.payload,
           (CHOOSE i \in 1..Len(r.payload) : r.payload[i] = AudioHeader) + 1,
           Len(r.payload))

\* The bundle is present and its soundEffects is a list of at least one entry.
HasSoundEffects(bundle) ==
    /\ bundle.t = "obj"
    /\ Get(bundle, K.soundEffects).t = "arr"
    /\ Get(bundle, K.soundEffects).a # <<>>

\* The text is one of the lines.
HasLine(lines, text) == \E i \in 1..Len(lines) : lines[i] = text

\* C37: generatePrototype puts audio code into the Build request only when the
\* AudioBundle is present and has at least one sound effect, and then the music code
\* and every effect's code; for an absent bundle or one with an empty soundEffects
\* list (the Soundscape fallback included) the request carries "NO CUSTOM AUDIO."
\* and nothing else of the bundle; the audio field of the game returned is the
\* bundle that was passed in.
C37_AudioCodeOnlyWithSoundEffects ==
    /\ \A i \in 1..Len(requests) :
          requests[i].phase = "Build" =>
              IF HasSoundEffects(audio)
              THEN /\ ~HasLine(AudioPartOf(requests[i]), "NO CUSTOM AUDIO.")
                   /\ Get(audio, K.backgroundMusic).t = "str" =>
                         Includes(AudioPartOf(requests[i]), Get(audio, K.backgroundMusic).s)
                   /\ \A k \in 1..Len(Get(audio, K.soundEffects).a) :
                         /\ Includes(AudioPartOf(requests[i]),
                                     Get(Get(audio, K.soundEffects).a[k], K.code).s)
                         /\ Includes(AudioPartOf(requests[i]),
                                     Get(Get(audio, K.soundEffects).a[k], K.trigger).s)
              ELSE AudioPartOf(requests[i]) = <<"NO CUSTOM AUDIO.">>
    /\ \A g \in 1..Len(heap) : refinedFrom[g] = 0 => heap[g].audio = audio

\* The bundle has music code and no sound effect: the request went out without the
\* music code and the game returned carries the bundle.
C37_Witness ==
    /\ pc = "Done"
    /\ audio = MusicOnlyBundle
    /\ Len(requests) = 1
    /\ requests[1].phase = "Build"
    /\ AudioPartOf(requests[1]) = <<"NO CUSTOM AUDIO.">>
    /\ Len(heap) = 1
    /\ heap[1].audio = MusicOnlyBundle

\* The flags isPlaying and isCrashed as start, panic stop and a reset leave them.
FlagsAfter(last) ==
    [isPlaying |-> last = "start", isCrashed |-> last = "panic"]

\* C38 as stated: in the preview component, under any sequence of start, reload,
\* panic stop and html change events, isPlaying and isCrashed are never both true:
\* the render of a panic stop click has crashed set and playing cleared, the render
\* of a reload click has both cleared, a render with every update of the html
\* effect applied and none queued after it has both cleared, and start is clicked
\* only while not crashed.
C38_EventsSetFlagsAsStated ==
    /\ [](~(preview.isPlaying /\ preview.isCrashed))
    /\ [][ClickPanicStop => preview'.isCrashed /\ ~preview'.isPlaying]_vars
    /\ [][ClickReload => ~preview'.isCrashed /\ ~preview'.isPlaying]_vars
    /\ []((AllRendered(preview) /\ preview.last = "reset")
             => ~preview.isCrashed /\ ~preview.isPlaying)
    /\ [][ClickStartGame => ~preview.isCrashed]_vars

\* C38, amended: isPlaying and isCrashed are never both true in a committed render;
\* start is clicked only while not crashed, and its render has playing set unless
\* the html effect was still pending; the render of a reload click has both flags
\* cleared; the render of a panic stop click has playing cleared, and crashed set
\* unless the html effect was still pending at the click; and once every queued
\* update has been rendered the flags are those of whichever of start, panic
\* stop, reload and html effect queued its updates last.
C38_NeverPlayingAndCrashed ==
    /\ [](~(preview.isPlaying /\ preview.isCrashed))
    /\ [][ClickStartGame =>
             /\ ~preview.isCrashed
             /\ preview'.isPlaying \/ HtmlEffectPending(preview)]_vars
    /\ [][ClickReload => ~preview'.isCrashed /\ ~preview'.isPlaying]_vars
    /\ [][ClickPanicStop =>
             /\ ~preview'.isPlaying
             /\ preview'.isCrashed \/ HtmlEffectPending(preview)]_vars
    /\ [](AllRendered(preview) =>
             /\ preview.isPlaying = FlagsAfter(preview.last).isPlaying
             /\ preview.isCrashed = FlagsAfter(preview.last).isCrashed)

\* Panic stop was clicked while the html effect of a new artifact was pending, and
\* the reset of that effect has since been rendered: the preview is not crashed.
C38_Witness ==
    /\ preview.halted
    /\ preview.last = "reset"
    /\ AllRendered(preview)
    /\ ~preview.isCrashed
    /\ ~preview.isPlaying
    /\ preview.frame # NoFrame

\* C39: once panic stop has been triggered nothing is written into the frame until a
\* reload click or an html change; mountKey counts the reloads and the html effect
\* runs, one each; and each of them is followed by a write of the current html into
\* a frame mounted after it, into which nothing had been written, unless panic stop
\* is clicked first.
C39_NoWriteAfterPanicAndRemountWrites ==
    /\ [](~preview.lastWrite.halted)
    /\ [](preview.mountKey <= preview.resets)
    /\ [](AllRendered(preview) => preview.mountKey = preview.resets)
    /\ \A k \in 1..MaxMountKey :
          (preview.resets = k) ~>
              \/ preview.halted
              \/ /\ preview.lastWrite.born >= k
                 /\ preview.lastWrite.fresh
                 /\ preview.lastWrite.html = preview.lastWrite.prop

====
